---- MODULE Spec2Model ----
(***************************************************************************)
(* Rayhunter: the IMSI-exposure classifier, the sliding-window ratio       *)
(* counter, the ratio analyzer and the diagnostic analyzer                 *)
(* (lib/src/analysis), and around them the analyzer harness and the QMDL   *)
(* replay device (daemon/src/replay.rs), the daemon's channel, recording   *)
(* session and display severity, the HDLC framer, the WiFi client's        *)
(* configuration file, scan and monitor (daemon/src/wifi.rs), the UZ801    *)
(* installer's install_file and the Meshtastic serial reader.              *)
(*                                                                         *)
(* The specifications share the state:                                     *)
(*   Spec            the ratio analyzer fed an arbitrary element stream    *)
(*   SpecClassifier  the diagnostic analyzer (a bare call of classify) fed *)
(*                   every element of the modelled element universe        *)
(*   SpecDefault     the ratio analyzer under the default configuration,   *)
(*                   fed the normal-traffic scenario                       *)
(*   SpecHarness     the harness fed containers directly                   *)
(*   SpecReplay      the replay device reading a file a writer appends to, *)
(*                   its containers handed to the harness, twice over      *)
(*   SpecSeverity    the fold of a report's events into its severity       *)
(*   SpecTee         the transport reader, the channel and its two         *)
(*                   consumers                                             *)
(*   SpecSession     the recording session under requests, disk changes    *)
(*                   and errors                                            *)
(*   SpecHdlc        the HDLC framer encoding a message and decoding it    *)
(*   SpecConstruct   the construction of the window and of the ratio       *)
(*                   analyzer from any configuration, window_size 0        *)
(*                   included                                              *)
(*   SpecWpaConf     update_wpa_conf over every setting of the SSID and    *)
(*                   the password                                          *)
(*   SpecWpaRoundTrip  format_wpa_conf followed by                         *)
(*                   read_ssid_from_wpa_conf                               *)
(*   SpecScan        parse_iw_scan over sequences of BSS blocks            *)
(*   SpecInstall     install_file, one device command per step             *)
(*   SpecWifi        the WiFi monitor task with module crashes and         *)
(*                   cancellation                                          *)
(*   SpecWifiLive    the monitor with ticks that keep firing and no        *)
(*                   shutdown request                                      *)
(*   SpecWifiShutdown  the monitor with a cancellation branch that is not  *)
(*                   passed over for ever                                  *)
(*   SpecMesh        the Meshtastic reader over every split of a stream    *)
(***************************************************************************)
EXTENDS Integers, Sequences, FiniteSets, TLC

\* ------------------------------------------------------------------ bounds

\* Largest window_size a configuration may carry.
MaxWindow == 3

\* Largest min_sample_size a configuration may carry (exceeds MaxWindow, so
\* configurations whose sample floor can never be met are included).
MaxMinSample == 4

\* Number of push calls followed in one behaviour.
MaxPushes == 5

\* Longest paging record list.
MaxRecords == 3

\* Number of containers a harness run is fed.
MaxContainers == 2

\* Number of containers a writer appends to the QMDL file.
MaxFile == 3

\* Latest reading of the wall clock.
MaxClock == 2

\* Number of event slots a folded report holds.
MaxReport == 3

\* Number of messages the transport reader reads off the device (beyond the
\* channel's capacity, so the channel fills and drains).
MaxRead == 66

\* Free space on the data partition, in MB, ranges over 0..MaxFree.
MaxFree == 2

\* Number of recordings one daemon run starts.
MaxEntries == 2

\* Length of the messages handed to the HDLC framer.
MaxLen == 5

\* Length of the SSIDs handed to format_wpa_conf.
MaxSsid == 3

\* Number of BSS blocks in the output of a scan.
MaxBss == 3

\* Number of bytes in a serial stream.
MaxStream == 7

\* positive_count is a usize.  TLC's integers end at 2^31 - 1, below 2^32 and
\* 2^64, so the wrap-around of the unsigned arithmetic is kept at a narrower
\* modulus, which still exceeds every count the bounds allow.
UsizeModulus == 2^16

\* ---------------------------------------------------- information elements

\* An InformationElement, flattened to one record shape:
\*   radio    GSM | UMTS | LTE | FiveG
\*   channel  the LteInformationElement variant
\*   msg      the message variant inside the channel
\*   ext      RRCConnectionRelease critical_extensions variant
\*   arg      cause / identity type / detach type / redirected carrier /
\*            presence of the paging record list
\*   list     the paging records' ue_identity variants, in order
IE(radio, channel, msg, ext, arg, list) ==
    [radio |-> radio, channel |-> channel, msg |-> msg, ext |-> ext,
     arg |-> arg, list |-> list]

GSM == IE("GSM", "-", "-", "-", "-", <<>>)
UMTS == IE("UMTS", "-", "-", "-", "-", <<>>)
FiveG == IE("FiveG", "-", "-", "-", "-", <<>>)

LteNas(msg, arg) == IE("LTE", "NAS", msg, "-", arg, <<>>)
LteDlDcch(msg, ext, arg) == IE("LTE", "DlDcch", msg, ext, arg, <<>>)
LtePcch(msg, arg, list) == IE("LTE", "PCCH", msg, "-", arg, list)
LteOther(channel) == IE("LTE", channel, "-", "-", "-", <<>>)

\* EMM cause values (3GPP TS 24.301): every cause the classifier names plus
\* causes it does not name.
EMMCauses ==
    {"IMSIUnknownInHSS", "IllegalUE", "IMEINotAccepted", "IllegalME",
     "EPSServicesNotAllowed", "EPSServicesAndNonEPSServicesNotAllowed",
     "UEIdentityCannotBeDerivedByTheNetwork", "ImplicitlyDetached",
     "PLMNNotAllowed", "TrackingAreaNotAllowed",
     "RoamingNotAllowedInThisTrackingArea", "EPSServicesNotAllowedInThisPLMN",
     "NoSuitableCellsInTrackingArea", "MSCTemporarilyNotReachable",
     "NetworkFailure", "CSDomainNotAvailable", "ESMFailure", "Congestion",
     "RequestedServiceOptionNotAuthorizedInThisPLMN"}

IdentityTypes == {"IMSI", "IMEI", "IMEISV", "TMSI"}

DetachTypes == {"ReAttachRequired", "ReAttachNotRequired", "IMSIDetach", "Reserved"}

RejectMessages ==
    {"EMMAttachReject", "EMMTrackingAreaUpdateReject", "EMMServiceReject"}

\* EMMMessage variants the classifier matches, and others it does not.
EMMMessages ==
    RejectMessages \cup
    {"EMMIdentityRequest", "EMMAuthenticationReject", "EMMDetachRequestMT",
     "EMMAttachAccept", "EMMSecurityModeCommand", "EMMAuthenticationRequest"}

RedirectedCarriers ==
    {"None", "Eutra", "Geran", "Utra_FDD", "Utra_TDD", "Cdma2000_HRPD"}

PagingIdentities == {"S_TMSI", "Imsi"}

RECURSIVE SeqsUpTo(_, _)
SeqsUpTo(S, n) ==
    IF n = 0 THEN {<<>>}
    ELSE LET shorter == SeqsUpTo(S, n - 1)
         IN  shorter \cup {Append(s, x) : s \in shorter, x \in S}

NasElements ==
    {LteNas("EMMIdentityRequest", t) : t \in IdentityTypes}
    \cup {LteNas(m, c) : m \in RejectMessages, c \in EMMCauses}
    \cup {LteNas("EMMDetachRequestMT", t) : t \in DetachTypes}
    \cup {LteNas(m, "-") : m \in {"EMMAuthenticationReject", "EMMAttachAccept",
                                  "EMMSecurityModeCommand",
                                  "EMMAuthenticationRequest", "ESMMessage"}}

DlDcchElements ==
    {LteDlDcch("RrcConnectionRelease", "RrcConnectionRelease_r8", c) :
        c \in RedirectedCarriers}
    \cup {LteDlDcch("RrcConnectionRelease", e, "-") :
            e \in {"Spare1", "CriticalExtensionsFuture"}}
    \cup {LteDlDcch(m, "-", "-") :
            m \in {"RrcConnectionReconfiguration", "SecurityModeCommand",
                   "MessageClassExtension"}}

PcchElements ==
    {LtePcch("Paging", "Some", l) : l \in SeqsUpTo(PagingIdentities, MaxRecords)}
    \cup {LtePcch("Paging", "None", <<>>), LtePcch("MessageClassExtension", "-", <<>>)}

OtherLteElements ==
    {LteOther(c) : c \in {"UlDcch", "BCCH_BCH", "BCCH_DL_SCH", "DlCcch", "MCCH"}}

InformationElements ==
    {GSM, UMTS, FiveG} \cup NasElements \cup DlDcchElements \cup PcchElements
    \cup OtherLteElements

\* ------------------------------------------------------------- classifier

\* Option<ImsiExposureClassification>: None is the record with category
\* "None"; the description is the format string's fixed text followed by the
\* values it interpolates.
NoClassification == [category |-> "None", description |-> <<>>]

Classification(category, description) ==
    [category |-> category, description |-> description]

is_some(classification) == classification.category # "None"

AttachRejectCauses ==
    {"IllegalUE", "IllegalME", "EPSServicesNotAllowed",
     "EPSServicesAndNonEPSServicesNotAllowed", "PLMNNotAllowed",
     "TrackingAreaNotAllowed", "RoamingNotAllowedInThisTrackingArea",
     "EPSServicesNotAllowedInThisPLMN", "NoSuitableCellsInTrackingArea",
     "RequestedServiceOptionNotAuthorizedInThisPLMN"}

TAURejectCauses ==
    {"IllegalUE", "IllegalME", "EPSServicesNotAllowed",
     "EPSServicesAndNonEPSServicesNotAllowed", "TrackingAreaNotAllowed",
     "EPSServicesNotAllowedInThisPLMN",
     "RequestedServiceOptionNotAuthorizedInThisPLMN"}

ServiceRejectCauses ==
    {"IllegalUE", "IllegalME", "EPSServicesNotAllowed",
     "UEIdentityCannotBeDerivedByTheNetwork", "TrackingAreaNotAllowed",
     "EPSServicesNotAllowedInThisPLMN",
     "RequestedServiceOptionNotAuthorizedInThisPLMN"}

\* classify_emm with the TAU Reject arm testing the Attach Reject cause list.
classify_emm_TauUsesAttachCauses(ie) ==
    CASE ie.msg = "EMMIdentityRequest" ->
            Classification("DirectIdentityRequest",
                           <<"EMM Identity Request", ie.arg>>)
      [] ie.msg = "EMMAttachReject" ->
            IF ie.arg \in AttachRejectCauses
            THEN Classification("AttachReject", <<"EMM Attach Reject", ie.arg>>)
            ELSE NoClassification
      [] ie.msg = "EMMTrackingAreaUpdateReject" ->
            IF ie.arg \in AttachRejectCauses
            THEN Classification("TauReject", <<"EMM TAU Reject", ie.arg>>)
            ELSE NoClassification
      [] ie.msg = "EMMServiceReject" ->
            IF ie.arg \in ServiceRejectCauses
            THEN Classification("ServiceReject", <<"EMM Service Reject", ie.arg>>)
            ELSE NoClassification
      [] ie.msg = "EMMAuthenticationReject" ->
            Classification("AuthenticationReject", <<"EMM Authentication Reject">>)
      [] ie.msg = "EMMDetachRequestMT" ->
            IF ie.arg # "IMSIDetach"
            THEN Classification("DetachRequest", <<"EMM Detach Request", ie.arg>>)
            ELSE NoClassification
      [] OTHER -> NoClassification

classify_emm(ie) ==
    CASE ie.msg = "EMMIdentityRequest" ->
            Classification("DirectIdentityRequest",
                           <<"EMM Identity Request", ie.arg>>)
      [] ie.msg = "EMMAttachReject" ->
            IF ie.arg \in AttachRejectCauses
            THEN Classification("AttachReject", <<"EMM Attach Reject", ie.arg>>)
            ELSE NoClassification
      [] ie.msg = "EMMTrackingAreaUpdateReject" ->
            IF ie.arg \in TAURejectCauses
            THEN Classification("TauReject", <<"EMM TAU Reject", ie.arg>>)
            ELSE NoClassification
      [] ie.msg = "EMMServiceReject" ->
            IF ie.arg \in ServiceRejectCauses
            THEN Classification("ServiceReject", <<"EMM Service Reject", ie.arg>>)
            ELSE NoClassification
      [] ie.msg = "EMMAuthenticationReject" ->
            Classification("AuthenticationReject", <<"EMM Authentication Reject">>)
      [] ie.msg = "EMMDetachRequestMT" ->
            IF ie.arg # "IMSIDetach"
            THEN Classification("DetachRequest", <<"EMM Detach Request", ie.arg>>)
            ELSE NoClassification
      [] OTHER -> NoClassification

classify_nas(ie) ==
    IF ie.msg \in EMMMessages THEN classify_emm(ie) ELSE NoClassification

classify_dl_dcch(ie) ==
    IF /\ ie.msg = "RrcConnectionRelease"
       /\ ie.ext = "RrcConnectionRelease_r8"
       /\ ie.arg # "None"
       /\ ie.arg = "Geran"
    THEN Classification("ConnectionRedirect",
                        <<"RRC Connection Release with redirect to 2G (GERAN)">>)
    ELSE NoClassification

\* The for loop over the paging records, returning at the first IMSI.
RECURSIVE PagingRecordsLoop(_, _)
PagingRecordsLoop(records, i) ==
    IF i > Len(records) THEN NoClassification
    ELSE IF records[i] = "Imsi"
         THEN Classification("PagingWithImsi",
                             <<"Paging with IMSI instead of S-TMSI">>)
         ELSE PagingRecordsLoop(records, i + 1)

\* classify_pcch looking at the first paging record only.
classify_pcch_FirstRecordOnly(ie) ==
    IF ie.msg = "Paging" /\ ie.arg = "Some" /\ Len(ie.list) > 0
       /\ ie.list[1] = "Imsi"
    THEN Classification("PagingWithImsi",
                        <<"Paging with IMSI instead of S-TMSI">>)
    ELSE NoClassification

classify_pcch(ie) ==
    IF ie.msg = "Paging" /\ ie.arg = "Some"
    THEN PagingRecordsLoop(ie.list, 1)
    ELSE NoClassification

classify_lte(ie) ==
    CASE ie.channel = "NAS" -> classify_nas(ie)
      [] ie.channel = "DlDcch" -> classify_dl_dcch(ie)
      [] ie.channel = "PCCH" -> classify_pcch(ie)
      [] OTHER -> NoClassification

classify(ie) ==
    IF ie.radio = "LTE" THEN classify_lte(ie) ELSE NoClassification

\* is_countable_message counting the FiveG stub as well.
is_countable_message_FiveGCounts(ie) == ie.radio \in {"LTE", "FiveG"}

\* is_countable_message counting every element, the stub radios included.
is_countable_message_All(ie) == TRUE

\* is_countable_message counting the NAS messages only.
is_countable_message_NasOnly(ie) == ie.radio = "LTE" /\ ie.channel = "NAS"

is_countable_message(ie) == ie.radio = "LTE"

\* --------------------------------------------------------- sliding window

\* A configured threshold is an f64, modelled as the fraction <<num, den>> it
\* was written as.  ratio() divides two small integers; the quotient and the
\* threshold each round to the nearest f64, rounding is monotonic, and two
\* different fractions with denominators this small never round to the same
\* f64, so  ratio >= threshold  on f64 is the comparison of the fractions.
Thresholds == {<<1, 4>>, <<1, 2>>, <<1, 1>>}

\* SlidingWindowRatio::new (the assert keeps window_size positive).
SlidingWindowRatio_new(window_size) ==
    [window |-> <<>>, window_size |-> window_size, positive_count |-> 0]

\* usize subtraction and addition.  An overflow panics when the build checks
\* overflow and wraps when it does not: both outcomes are kept.
UsizeSub1(x) ==
    IF x > 0 THEN {[value |-> x - 1, panic |-> FALSE]}
    ELSE {[value |-> x, panic |-> TRUE],
          [value |-> UsizeModulus - 1, panic |-> FALSE]}

UsizeAdd1(x) ==
    IF x + 1 < UsizeModulus THEN {[value |-> x + 1, panic |-> FALSE]}
    ELSE {[value |-> x, panic |-> TRUE], [value |-> 0, panic |-> FALSE]}

\* push with the running count decremented on every eviction, whatever the
\* evicted value was.
push_DecrementAlways(w, is_positive) ==
    LET full == Len(w.window) = w.window_size
        pops == full /\ Len(w.window) > 0
        popped == IF pops THEN Tail(w.window) ELSE w.window
        subs == IF pops THEN UsizeSub1(w.positive_count)
                ELSE {[value |-> w.positive_count, panic |-> FALSE]}
    IN  {IF s.panic
         THEN [w |-> [w EXCEPT !.window = popped], panic |-> TRUE]
         ELSE [w |-> [w EXCEPT !.window = Append(popped, is_positive),
                               !.positive_count =
                                  (s.value + IF is_positive THEN 1 ELSE 0)
                                  % UsizeModulus],
               panic |-> FALSE]
         : s \in subs}

\* push evicting with pop_back: the newest observation leaves, not the oldest.
push_EvictNewest(w, is_positive) ==
    LET full == Len(w.window) = w.window_size
        pops == full /\ Len(w.window) > 0
        evicted == pops /\ w.window[Len(w.window)]
        popped == IF pops THEN SubSeq(w.window, 1, Len(w.window) - 1)
                  ELSE w.window
        kept == w.positive_count - (IF evicted THEN 1 ELSE 0)
    IN  {[w |-> [w EXCEPT !.window = Append(popped, is_positive),
                          !.positive_count =
                             kept + IF is_positive THEN 1 ELSE 0],
          panic |-> FALSE]}

\* ratio dividing by the capacity instead of the number of observations held.
ratio_OverCapacity(w) ==
    IF Len(w.window) = 0 THEN [some |-> FALSE, num |-> 0, den |-> 1]
    ELSE [some |-> TRUE, num |-> w.positive_count, den |-> w.window_size]

\* SlidingWindowRatio::push: the set of outcomes [w, panic] of one call.
push(w, is_positive) ==
    LET full == Len(w.window) = w.window_size
        pops == full /\ Len(w.window) > 0
        evicted == pops /\ Head(w.window)
        popped == IF pops THEN Tail(w.window) ELSE w.window
        subs == IF evicted THEN UsizeSub1(w.positive_count)
                ELSE {[value |-> w.positive_count, panic |-> FALSE]}
    IN  UNION {
          IF s.panic
          THEN {[w |-> [w EXCEPT !.window = popped], panic |-> TRUE]}
          ELSE LET adds == IF is_positive THEN UsizeAdd1(s.value)
                           ELSE {[value |-> s.value, panic |-> FALSE]}
               IN  {IF a.panic
                    THEN [w |-> [w EXCEPT !.window = popped,
                                          !.positive_count = s.value],
                          panic |-> TRUE]
                    ELSE [w |-> [w EXCEPT !.window = Append(popped, is_positive),
                                          !.positive_count = a.value],
                          panic |-> FALSE]
                    : a \in adds}
          : s \in subs}

\* SlidingWindowRatio::count
count(w) == Len(w.window)

\* SlidingWindowRatio::ratio: Option<f64>, the quotient kept as a fraction.
NoRatio == [some |-> FALSE, num |-> 0, den |-> 1]

ratio(w) ==
    IF Len(w.window) = 0 THEN NoRatio
    ELSE [some |-> TRUE, num |-> w.positive_count, den |-> Len(w.window)]

\* r >= t for a ratio r and a threshold t = <<num, den>>.
RatioGe(r, t) == r.num * t[2] >= t[1] * r.den

\* --------------------------------------------------------------- events

\* Option<Event>: None is the record with event_type "None".  The message
\* keeps the values the format string interpolates.
NoEvent == [event_type |-> "None", message |-> <<>>]

Event(event_type, message) == [event_type |-> event_type, message |-> message]

\* ---------------------------------------------------------------- state

VARIABLES
    config,               \* ImsiExposureRatioAnalyzer.config
    window,               \* ImsiExposureRatioAnalyzer.window
    last_classification,  \* ImsiExposureRatioAnalyzer.last_classification
    panicked,             \* an arithmetic overflow panicked inside push
    ratio_ie,             \* the element of the ratio analyzer's latest call
    ratio_event,          \* what that call returned
    observations,         \* every value handed to push so far, in order
    diag_ie,              \* the element of the diagnostic analyzer's latest call
    diag_event,           \* what that call returned
    harness_analyzers,    \* Harness: the configured analyzers, in order
    packet_num,           \* Harness: log items seen this session
    capture,              \* every container handed to the harness, in order
    rows,                 \* every row the harness has emitted, in order
    file,                 \* the QMDL file: the containers appended so far
    known_size,           \* QmdlReader.known_size (Option<usize>)
    size_at_open,         \* the size the file had when the device opened it
    reader_pos,           \* QmdlReader: offset of the next container to read
    stream_done,          \* the stream returned None
    run,                  \* replays started so far
    prev_rows,            \* the rows of the previous replay
    speed,                \* QmdlReplayDevice.speed
    now,                  \* the wall clock
    opened_at,            \* the wall clock when the device was opened
    constructed,          \* whether the ratio analyzer exists: no, yes, panicked
    panic_message,        \* the message of the panic that ended construction
    report,               \* the events of a report, slot by slot (Option<Event>)
    max_severity,         \* analyze_fixture: the fold over the report so far
    device_read,          \* messages the transport reader has read off the device
    tee,                  \* the reader-to-consumers channel: messages buffered
    writer_taken,         \* messages the QMDL writer has received, in order
    decoder_taken,        \* messages the decoder has received, in order
    session,              \* recording session: Idle, Recording, Paused, Stopped
    stop_reason,          \* Stopped(reason)
    current_entry,        \* manifest: the current entry (0 when absent)
    entries,              \* manifest: entries created so far
    pipelines,            \* recording pipelines whose tasks are running
    free_mb,              \* free disk space
    min_space_to_start_recording_mb,  \* configuration
    last_response,        \* HTTP status of the latest request (0 before any)
    last_step,            \* the kind of the latest request or error of the session
    hdlc_msg,             \* the message handed to encode
    hdlc_encoded,         \* what encode returned
    hdlc_decoded,         \* what decode_stream yielded for it
    wifi_ssid,            \* Config.wifi_ssid (Option<String>)
    wifi_password,        \* Config.wifi_password (Option<String>)
    wpa_file,             \* the wpa_supplicant configuration file
    read_ssid,            \* what read_ssid_from_wpa_conf returned
    wpa_step,             \* the latest call on the configuration file
    scan_blocks,          \* the BSS blocks of the output of iw scan
    networks,             \* what parse_iw_scan returned
    scan_step,            \* whether the output was parsed
    install_pc,           \* install_file: the next device command, or how it returned
    install_attempt,      \* install_file: attempt
    install_pushes,       \* install_file: pushes made
    install_payload,      \* install_file: payload
    tmp_file,             \* content of /data/local/tmp/<file name>
    dest_file,            \* content of the destination
    dest_before,          \* content of the destination when install_file was called
    install_verified,     \* an attempt's pushed copy had the MD5 of the payload
    wifi_pc,              \* the monitor task: "spawned", "starting", "waiting" in the select, or "done"
    wifi_state,           \* WifiStatus.state
    wifi_ip,              \* WifiStatus.ip: "none" or "addr"
    wifi_error,           \* WifiStatus.error: "none" or which error
    recovery_attempts,    \* run_wifi_client: recovery_attempts
    backoff_secs,         \* run_wifi_client: backoff_secs
    wpa_child,            \* WifiClient.wpa_child: "None" or "Some"
    dhcp_child,           \* WifiClient.dhcp_child: "None" or "Some"
    shutdown_cancelled,   \* the shutdown token is cancelled
    iface_seen,           \* what interface_exists returned at the latest tick
    wifi_step,            \* the latest step of the monitor
    conf_ssid,            \* run_wifi_client: the SSID read from the configuration file
    iface_present,       \* /sys/class/net/wlan1 exists
    status_ssid,          \* WifiStatus.ssid
    serial_stream,        \* the bytes the radio sends on the serial port
    delivered,            \* how many of them read() has returned
    accum,                \* reader task: accum
    payloads,             \* the payloads the reader task has extracted
    hdlc_phase            \* how far the round trip has come

vars ==
    <<serial_stream, delivered, accum, payloads,
      iface_present, conf_ssid, status_ssid,
      wifi_pc, wifi_state, wifi_ip, wifi_error, recovery_attempts, backoff_secs,
      wpa_child, dhcp_child, shutdown_cancelled, iface_seen, wifi_step,
      install_pc, install_attempt, install_pushes, install_payload, tmp_file,
      dest_file, dest_before, install_verified,
      scan_blocks, networks, scan_step,
      wifi_ssid, wifi_password, wpa_file, read_ssid, wpa_step,
      config, window, last_classification, panicked, ratio_ie, ratio_event,
      observations, diag_ie, diag_event, harness_analyzers, packet_num,
      capture, rows, file, known_size, size_at_open, reader_pos, stream_done,
      run, prev_rows, speed, now, opened_at, constructed, panic_message,
      report, max_severity, device_read, tee, writer_taken, decoder_taken,
      session, stop_reason, current_entry, entries, pipelines, free_mb,
      min_space_to_start_recording_mb, last_response, last_step, hdlc_msg,
      hdlc_encoded, hdlc_decoded, hdlc_phase>>

ratio_vars ==
    <<config, window, last_classification, panicked, ratio_ie, ratio_event,
      observations>>

diag_vars == <<diag_ie, diag_event>>

harness_vars == <<harness_analyzers, packet_num, capture, rows>>

replay_vars ==
    <<file, known_size, size_at_open, reader_pos, stream_done, run, prev_rows,
      speed, now, opened_at>>

construct_vars == <<constructed, panic_message>>

severity_vars == <<report, max_severity>>

tee_vars == <<device_read, tee, writer_taken, decoder_taken>>

session_vars ==
    <<session, stop_reason, current_entry, entries, pipelines, free_mb,
      min_space_to_start_recording_mb, last_response, last_step>>

hdlc_vars == <<hdlc_msg, hdlc_encoded, hdlc_decoded, hdlc_phase>>

\* Everything outside the analyzers, the harness and the replay device.
daemon_vars ==
    <<construct_vars, severity_vars, tee_vars, session_vars, hdlc_vars>>

wpa_vars == <<wifi_ssid, wifi_password, wpa_file, read_ssid, wpa_step>>

scan_vars == <<scan_blocks, networks, scan_step>>

install_vars ==
    <<install_pc, install_attempt, install_pushes, install_payload, tmp_file,
      dest_file, dest_before, install_verified>>

wifi_vars ==
    <<wifi_pc, wifi_state, wifi_ip, wifi_error, recovery_attempts, backoff_secs,
      wpa_child, dhcp_child, shutdown_cancelled, iface_seen, wifi_step, conf_ssid,
      status_ssid, iface_present>>

mesh_vars == <<serial_stream, delivered, accum, payloads>>

peripheral_vars == <<wpa_vars, scan_vars, install_vars, wifi_vars, mesh_vars>>

\* What each peripheral leaves alone.
beside_wpa == <<scan_vars, install_vars, wifi_vars, mesh_vars>>

beside_scan == <<wpa_vars, install_vars, wifi_vars, mesh_vars>>

beside_install == <<wpa_vars, scan_vars, wifi_vars, mesh_vars>>

beside_wifi == <<wpa_vars, scan_vars, install_vars, mesh_vars>>

beside_mesh == <<wpa_vars, scan_vars, install_vars, wifi_vars>>

\* Option<usize>: None is the record with some = FALSE.
NoSize == [some |-> FALSE, value |-> 0]

SomeSize(n) == [some |-> TRUE, value |-> n]

\* No call made yet.
NoElement == IE("-", "-", "-", "-", "-", <<>>)

\* ImsiExposureConfig: any positive window_size (new asserts it), any
\* min_sample_size, any pair of thresholds (nothing orders medium below high).
Configs ==
    [window_size : 1..MaxWindow,
     baseline_ratio : {<<3, 100>>},
     medium_threshold : Thresholds,
     high_threshold : Thresholds,
     min_sample_size : 0..MaxMinSample]

\* ImsiExposureConfig::default
ImsiExposureConfig_default ==
    [window_size |-> 200,
     baseline_ratio |-> <<3, 100>>,
     medium_threshold |-> <<10, 100>>,
     high_threshold |-> <<25, 100>>,
     min_sample_size |-> 50]

\* ImsiExposureRatioAnalyzer::new and DiagnosticAnalyzer::new, for the
\* configuration cfg.
InitAnalyzers(cfg) ==
    /\ config = cfg
    /\ window = SlidingWindowRatio_new(config.window_size)
    /\ last_classification = NoClassification
    /\ panicked = FALSE
    /\ ratio_ie = NoElement
    /\ ratio_event = NoEvent
    /\ observations = <<>>
    /\ diag_ie = NoElement
    /\ diag_event = NoEvent

\* No harness around the analyzers.
NoHarness ==
    /\ harness_analyzers = <<>>
    /\ packet_num = 0
    /\ capture = <<>>
    /\ rows = <<>>

\* No replay device: an empty file, nothing opened, the clock at 0.
NoReplay ==
    /\ file = <<>>
    /\ known_size = NoSize
    /\ size_at_open = 0
    /\ reader_pos = 0
    /\ stream_done = FALSE
    /\ run = 0
    /\ prev_rows = <<>>
    /\ speed = 0
    /\ now = 0
    /\ opened_at = 0

\* Option<String>: a string is the sequence of its characters.
NoString == [some |-> FALSE, value |-> <<>>]

SomeString(str) == [some |-> TRUE, value |-> str]

\* A file: absent, or its content and its permission bits.
NoFile == [exists |-> FALSE, content |-> <<>>, mode |-> 0]

\* The analyzers were constructed without a panic.
Constructed ==
    /\ constructed = "yes"
    /\ panic_message = ""

\* No report is folded and no channel is at work.
NoReport ==
    /\ report = <<>>
    /\ max_severity = "None"
    /\ device_read = 0
    /\ tee = <<>>
    /\ writer_taken = <<>>
    /\ decoder_taken = <<>>

\* No recording session is at work.
NoSession ==
    /\ session = "Idle"
    /\ stop_reason = "None"
    /\ current_entry = 0
    /\ entries = 0
    /\ pipelines = 0
    /\ free_mb = 0
    /\ min_space_to_start_recording_mb = 0
    /\ last_response = 0
    /\ last_step = "none"

\* No framer is at work.
NoHdlc ==
    /\ hdlc_msg = <<>>
    /\ hdlc_encoded = <<>>
    /\ hdlc_decoded = <<>>
    /\ hdlc_phase = "none"

NoWpa ==
    /\ wifi_ssid = NoString
    /\ wifi_password = NoString
    /\ wpa_file = NoFile
    /\ read_ssid = NoString
    /\ wpa_step = "none"

NoScan ==
    /\ scan_blocks = <<>>
    /\ networks = <<>>
    /\ scan_step = "none"

NoInstall ==
    /\ install_pc = "none"
    /\ install_attempt = 0
    /\ install_pushes = 0
    /\ install_payload = "absent"
    /\ tmp_file = "absent"
    /\ dest_file = "absent"
    /\ dest_before = "absent"
    /\ install_verified = FALSE

NoWifi ==
    /\ wifi_pc = "none"
    /\ wifi_state = "Disabled"
    /\ wifi_ip = "none"
    /\ wifi_error = "none"
    /\ recovery_attempts = 0
    /\ backoff_secs = 0
    /\ wpa_child = "None"
    /\ dhcp_child = "None"
    /\ shutdown_cancelled = FALSE
    /\ iface_seen = "none"
    /\ wifi_step = "none"
    /\ conf_ssid = NoString
    /\ status_ssid = NoString
    /\ iface_present = FALSE

NoMesh ==
    /\ serial_stream = <<>>
    /\ delivered = 0
    /\ accum = <<>>
    /\ payloads = <<>>

\* The other peripherals are not at work.
NoBeside_wpa ==
    /\ NoScan
    /\ NoInstall
    /\ NoWifi
    /\ NoMesh

NoBeside_scan ==
    /\ NoWpa
    /\ NoInstall
    /\ NoWifi
    /\ NoMesh

NoBeside_install ==
    /\ NoWpa
    /\ NoScan
    /\ NoWifi
    /\ NoMesh

NoBeside_wifi ==
    /\ NoWpa
    /\ NoScan
    /\ NoInstall
    /\ NoMesh

NoBeside_mesh ==
    /\ NoWpa
    /\ NoScan
    /\ NoInstall
    /\ NoWifi

\* No peripheral is at work.
NoPeripherals ==
    /\ NoMesh
    /\ NoWifi
    /\ NoInstall
    /\ NoScan
    /\ NoWpa

NoDaemon ==
    /\ Constructed
    /\ NoReport
    /\ NoSession
    /\ NoHdlc
    /\ NoPeripherals

\* The analyzers alone, called directly.
InitWith(cfg) ==
    /\ InitAnalyzers(cfg)
    /\ NoHarness
    /\ NoReplay
    /\ NoDaemon

Init == \E cfg \in Configs : InitWith(cfg)

\* ------------------------------------------------------- ratio analyzer

\* The decision with the sample floor tested against the count before the
\* push (one observation short).
RatioDecision_FloorBeforePush(cfg, w, is_exposing, classification) ==
    IF count(w) + 1 < cfg.min_sample_size THEN NoEvent
    ELSE LET r == ratio(w)
             desc == IF is_some(classification) THEN classification.description
                     ELSE <<"unknown">>
         IN  IF ~r.some \/ ~is_exposing THEN NoEvent
             ELSE IF RatioGe(r, cfg.high_threshold)
                  THEN Event("High", <<r, w.positive_count, count(w),
                                       cfg.high_threshold, desc>>)
             ELSE IF RatioGe(r, cfg.medium_threshold)
                  THEN Event("Medium", <<r, w.positive_count, count(w),
                                         cfg.medium_threshold, desc>>)
             ELSE NoEvent

\* The decision without the is_exposing gate: an elevated ratio raises an
\* event on every countable element.
RatioDecision_NoExposingGate(cfg, w, is_exposing, classification) ==
    IF count(w) < cfg.min_sample_size THEN NoEvent
    ELSE LET r == ratio(w)
             desc == IF is_some(classification) THEN classification.description
                     ELSE <<"unknown">>
         IN  IF ~r.some THEN NoEvent
             ELSE IF RatioGe(r, cfg.high_threshold)
                  THEN Event("High", <<r, w.positive_count, count(w),
                                       cfg.high_threshold, desc>>)
             ELSE IF RatioGe(r, cfg.medium_threshold)
                  THEN Event("Medium", <<r, w.positive_count, count(w),
                                         cfg.medium_threshold, desc>>)
             ELSE NoEvent

\* The decision with the medium threshold tested before the high one.
RatioDecision_MediumFirst(cfg, w, is_exposing, classification) ==
    IF count(w) < cfg.min_sample_size THEN NoEvent
    ELSE LET r == ratio(w)
             desc == IF is_some(classification) THEN classification.description
                     ELSE <<"unknown">>
         IN  IF ~r.some \/ ~is_exposing THEN NoEvent
             ELSE IF RatioGe(r, cfg.medium_threshold)
                  THEN Event("Medium", <<r, w.positive_count, count(w),
                                         cfg.medium_threshold, desc>>)
             ELSE IF RatioGe(r, cfg.high_threshold)
                  THEN Event("High", <<r, w.positive_count, count(w),
                                       cfg.high_threshold, desc>>)
             ELSE NoEvent

\* The decision with an inclusive sample floor: no event until the count
\* exceeds min_sample_size.
RatioDecision_FloorInclusive(cfg, w, is_exposing, classification) ==
    IF count(w) <= cfg.min_sample_size THEN NoEvent
    ELSE LET r == ratio(w)
             desc == IF is_some(classification) THEN classification.description
                     ELSE <<"unknown">>
         IN  IF ~r.some \/ ~is_exposing THEN NoEvent
             ELSE IF RatioGe(r, cfg.high_threshold)
                  THEN Event("High", <<r, w.positive_count, count(w),
                                       cfg.high_threshold, desc>>)
             ELSE IF RatioGe(r, cfg.medium_threshold)
                  THEN Event("Medium", <<r, w.positive_count, count(w),
                                         cfg.medium_threshold, desc>>)
             ELSE NoEvent

\* The decision with the baseline ratio standing in for the medium threshold.
RatioDecision_BaselineAsMedium(cfg, w, is_exposing, classification) ==
    IF count(w) < cfg.min_sample_size THEN NoEvent
    ELSE LET r == ratio(w)
             desc == IF is_some(classification) THEN classification.description
                     ELSE <<"unknown">>
         IN  IF ~r.some \/ ~is_exposing THEN NoEvent
             ELSE IF RatioGe(r, cfg.high_threshold)
                  THEN Event("High", <<r, w.positive_count, count(w),
                                       cfg.high_threshold, desc>>)
             ELSE IF RatioGe(r, cfg.baseline_ratio)
                  THEN Event("Medium", <<r, w.positive_count, count(w),
                                         cfg.baseline_ratio, desc>>)
             ELSE NoEvent

\* The decision with the sample floor clamped to the capacity of the window.
RatioDecision_FloorClamped(cfg, w, is_exposing, classification) ==
    IF count(w) < cfg.min_sample_size /\ count(w) < w.window_size THEN NoEvent
    ELSE LET r == ratio(w)
             desc == IF is_some(classification) THEN classification.description
                     ELSE <<"unknown">>
         IN  IF ~r.some THEN NoEvent
             ELSE IF ~is_exposing THEN NoEvent
             ELSE IF RatioGe(r, cfg.high_threshold)
                  THEN Event("High", <<r, w.positive_count, count(w),
                                       cfg.high_threshold, desc>>)
             ELSE IF RatioGe(r, cfg.medium_threshold)
                  THEN Event("Medium", <<r, w.positive_count, count(w),
                                         cfg.medium_threshold, desc>>)
             ELSE NoEvent

\* The tail of analyze_information_element, after the push: the sample-size
\* floor, ratio()?, the is_exposing gate and the two thresholds.
RatioDecision(cfg, w, is_exposing, classification) ==
    IF count(w) < cfg.min_sample_size THEN NoEvent
    ELSE LET r == ratio(w)
             desc == IF is_some(classification) THEN classification.description
                     ELSE <<"unknown">>
         IN  IF ~r.some THEN NoEvent
             ELSE IF ~is_exposing THEN NoEvent
             ELSE IF RatioGe(r, cfg.high_threshold)
                  THEN Event("High", <<r, w.positive_count, count(w),
                                       cfg.high_threshold, desc>>)
             ELSE IF RatioGe(r, cfg.medium_threshold)
                  THEN Event("Medium", <<r, w.positive_count, count(w),
                                         cfg.medium_threshold, desc>>)
             ELSE NoEvent

\* analyze_information_element with the sample floor tested before the push:
\* below the floor the call returns without recording the observation.
analyze_information_element_FloorFirst(ie) ==
    /\ ~panicked
    /\ ratio_ie' = ie
    /\ IF ~is_countable_message(ie)
       THEN /\ ratio_event' = NoEvent
            /\ UNCHANGED <<config, window, last_classification, panicked,
                           observations>>
       ELSE LET classification == classify(ie)
                is_exposing == is_some(classification)
            IN  /\ last_classification' = classification
                /\ IF count(window) + 1 < config.min_sample_size
                   THEN /\ ratio_event' = NoEvent
                        /\ observations' = Append(observations, is_exposing)
                        /\ UNCHANGED <<config, window, panicked>>
                   ELSE /\ observations' = Append(observations, is_exposing)
                        /\ \E o \in push(window, is_exposing) :
                              /\ window' = o.w
                              /\ panicked' = o.panic
                              /\ ratio_event' =
                                    IF o.panic THEN NoEvent
                                    ELSE RatioDecision(config, o.w, is_exposing,
                                                       classification)
                        /\ UNCHANGED config

\* ImsiExposureRatioAnalyzer::analyze_information_element as a function of
\* the analyzer a = [config, window, last_classification, panicked]: the set
\* of outcomes [a, event, pushed] of one call, pushed being the observations
\* the call handed to push.
ratio_analyze(a, ie) ==
    IF ~is_countable_message(ie)
    THEN {[a |-> a, event |-> NoEvent, pushed |-> <<>>]}
    ELSE LET classification == classify(ie)
             is_exposing == is_some(classification)
         IN  {[a |-> [a EXCEPT !.last_classification = classification,
                               !.window = o.w,
                               !.panicked = o.panic],
               event |-> IF o.panic THEN NoEvent
                         ELSE RatioDecision(a.config, o.w, is_exposing,
                                            classification),
               pushed |-> <<is_exposing>>]
              : o \in push(a.window, is_exposing)}

\* The ratio analyzer the state holds.
RatioAnalyzer ==
    [config |-> config, window |-> window,
     last_classification |-> last_classification, panicked |-> panicked]

\* ImsiExposureRatioAnalyzer::analyze_information_element
analyze_information_element(ie) ==
    /\ ~panicked
    /\ ratio_ie' = ie
    /\ \E o \in ratio_analyze(RatioAnalyzer, ie) :
          /\ config' = o.a.config
          /\ window' = o.a.window
          /\ last_classification' = o.a.last_classification
          /\ panicked' = o.a.panicked
          /\ ratio_event' = o.event
          /\ observations' = observations \o o.pushed

\* The elements the ratio analyzer is fed: the three stub radios and, for
\* every branch of the classifier, LTE elements it tags and LTE elements it
\* does not.
RatioElements ==
    {GSM, UMTS, FiveG,
     LteNas("EMMIdentityRequest", "IMSI"),
     LteNas("EMMAttachReject", "IllegalUE"),
     LteNas("EMMAttachReject", "Congestion"),
     LteNas("EMMDetachRequestMT", "IMSIDetach"),
     LteNas("ESMMessage", "-"),
     LteDlDcch("RrcConnectionRelease", "RrcConnectionRelease_r8", "Geran"),
     LteDlDcch("RrcConnectionRelease", "RrcConnectionRelease_r8", "None"),
     LtePcch("Paging", "Some", <<"S_TMSI", "Imsi">>),
     LtePcch("Paging", "None", <<>>),
     LteOther("UlDcch")}

\* One call of the ratio analyzer; MaxPushes bounds the calls that push.
AnalyzeRatio ==
    /\ \E ie \in RatioElements :
          /\ ie.radio = "LTE" => Len(observations) < MaxPushes
          /\ analyze_information_element(ie)
    /\ UNCHANGED <<diag_vars, harness_vars, replay_vars>>
    /\ UNCHANGED daemon_vars
    /\ UNCHANGED peripheral_vars

Next == AnalyzeRatio

Spec == Init /\ [][Next]_vars

\* -------------------------------------------------- diagnostic analyzer

\* The diagnostic analyzer emitting for every LTE element, tagged or not.
diagnostic_analyze_EveryLte(ie) ==
    LET classification == classify(ie)
    IN  IF ie.radio # "LTE" THEN NoEvent
        ELSE Event("Informational",
                   <<"Diagnostic", classification.description,
                     classification.category>>)

\* DiagnosticAnalyzer::analyze_information_element as a function: the
\* analyzer has no field, so the element alone decides what it returns.
diagnostic_analyze(ie) ==
    LET classification == classify(ie)
    IN  IF ~is_some(classification) THEN NoEvent
        ELSE Event("Informational",
                   <<"Diagnostic", classification.description,
                     classification.category>>)

\* The diagnostic analyzer remembering its latest element and staying silent
\* when the same element comes again.
diagnostic_analyze_information_element_Dedup(ie) ==
    /\ diag_ie' = ie
    /\ diag_event' = IF ie = diag_ie THEN NoEvent ELSE diagnostic_analyze(ie)

\* DiagnosticAnalyzer::analyze_information_element
diagnostic_analyze_information_element(ie) ==
    /\ diag_ie' = ie
    /\ diag_event' = diagnostic_analyze(ie)

AnalyzeDiagnostic ==
    /\ \E ie \in InformationElements : diagnostic_analyze_information_element(ie)
    /\ UNCHANGED <<ratio_vars, harness_vars, replay_vars>>
    /\ UNCHANGED daemon_vars
    /\ UNCHANGED peripheral_vars

NextClassifier == AnalyzeDiagnostic

\* ImsiExposureRatioAnalyzer::default and DiagnosticAnalyzer::default
InitClassifier == InitWith(ImsiExposureConfig_default)

SpecClassifier == InitClassifier /\ [][NextClassifier]_vars

\* ------------------------------------------------- sliding-window claims

Min(a, b) == IF a < b THEN a ELSE b

\* The last n values of the sequence s (all of s when it is shorter).
LastN(s, n) ==
    IF Len(s) <= n THEN s ELSE SubSeq(s, Len(s) - n + 1, Len(s))

\* The number of TRUE values in the boolean sequence s.
TrueCount(s) == Cardinality({i \in 1..Len(s) : s[i]})

\* C1: after any sequence of push calls on a window of capacity c > 0,
\* 0 <= positive_count <= count() <= c, and the decrement of positive_count
\* on eviction never underflows (no overflow panic, no wrapped value).
C1_WindowBounds ==
    /\ window.window_size > 0
    /\ 0 <= window.positive_count
    /\ window.positive_count <= count(window)
    /\ count(window) <= window.window_size
    /\ ~panicked

\* A full window has evicted a TRUE observation (the decrement has run) and
\* still holds a positive one.
C1_Witness ==
    /\ Len(observations) > window.window_size
    /\ observations[Len(observations) - window.window_size]
    /\ window.positive_count > 0
    /\ count(window) = window.window_size

\* C2: eviction is FIFO: after pushing b1..bn into a window of capacity c the
\* window holds exactly the last min(n, c) pushed values in push order,
\* count() = min(n, c), and positive_count is the number of TRUE values
\* among them.
C2_Fifo ==
    LET n == Len(observations)
        c == window.window_size
    IN  /\ window.window = LastN(observations, c)
        /\ count(window) = Min(n, c)
        /\ window.positive_count = TrueCount(LastN(observations, c))

\* Two evictions have happened, of a TRUE and of a FALSE observation, and the
\* window holds both kinds.
C2_Witness ==
    LET n == Len(observations)
        c == window.window_size
    IN  /\ n >= c + 2
        /\ c >= 2
        /\ observations[n - c] # observations[n - c - 1]
        /\ \E i, j \in 1..count(window) : window.window[i] /\ ~window.window[j]

\* C3: ratio() returns None exactly when no observation has ever been pushed;
\* otherwise it returns positive_count / count(), a value from 0 to 1.
C3_Ratio ==
    LET r == ratio(window)
        kept == LastN(observations, window.window_size)
    IN  /\ r.some <=> observations # <<>>
        /\ r.some =>
              /\ r.num = TrueCount(kept)
              /\ r.den = Len(kept)
              /\ r.den > 0
              /\ 0 <= r.num
              /\ r.num <= r.den

\* After an eviction the ratio is a proper fraction.
C3_Witness ==
    LET r == ratio(window)
    IN  /\ Len(observations) > window.window_size
        /\ r.some
        /\ 0 < r.num
        /\ r.num < r.den

\* ------------------------------------------------- ratio-analyzer claims

\* The ratio positive_count / count() of the window is at least the
\* threshold t = <<num, den>>.
WindowRatioGe(t) == window.positive_count * t[2] >= t[1] * count(window)

\* The latest element of the ratio analyzer was LTE and the classifier tags it.
RatioElementExposing ==
    is_countable_message(ratio_ie) /\ is_some(classify(ratio_ie))

\* C4: given a non-countable element (GSM, UMTS or FiveG) the ratio analyzer
\* returns no event and leaves its sliding window (contents, count,
\* positive_count) unchanged, in every state of the analyzer.
C4_NonCountableFrame ==
    [][ratio_ie' \in {GSM, UMTS, FiveG} =>
          /\ ratio_event' = NoEvent
          /\ window' = window
          /\ count(window') = count(window)
          /\ observations' = observations]_vars

\* A stub-radio element arrived at a window that is full of positives and
\* past the sample floor, where an exposing LTE element would raise an event.
C4_Witness ==
    /\ ratio_ie \in {GSM, UMTS, FiveG}
    /\ ratio_event = NoEvent
    /\ count(window) = window.window_size
    /\ window.positive_count = count(window)
    /\ count(window) >= config.min_sample_size
    /\ config.min_sample_size > 0

\* C5: for every countable element the ratio analyzer pushes exactly one
\* observation, equal to whether the element is classified as exposing,
\* before any early return: the window takes it also for non-exposing
\* elements and for elements on which no event is emitted.
C5_PushOnEveryCountable ==
    [][is_countable_message(ratio_ie') =>
          LET is_exposing == is_some(classify(ratio_ie'))
              old == window.window
              kept == IF Len(old) = window.window_size THEN Tail(old) ELSE old
          IN  /\ window'.window = Append(kept, is_exposing)
              /\ observations' = Append(observations, is_exposing)
              /\ window'.positive_count = TrueCount(window'.window)]_vars

\* A non-exposing element was pushed below the sample floor: no event, and
\* the window holds it.
C5_Witness ==
    /\ is_countable_message(ratio_ie)
    /\ ~is_some(classify(ratio_ie))
    /\ ratio_event = NoEvent
    /\ count(window) < config.min_sample_size
    /\ count(window) >= 2
    /\ window.window[count(window)] = FALSE

\* C6: the ratio analyzer never emits an event while the number of
\* observations in the window, after the current push, is below
\* min_sample_size, even when every observation is exposing.
C6_SampleFloor ==
    ratio_event # NoEvent => count(window) >= config.min_sample_size

\* Every observation is exposing, the latest element too, and the window is
\* one short of the sample floor: nothing is emitted.
C6_Witness ==
    /\ RatioElementExposing
    /\ count(window) + 1 = config.min_sample_size
    /\ count(window) >= 1
    /\ window.positive_count = count(window)
    /\ WindowRatioGe(config.high_threshold)
    /\ ratio_event = NoEvent

\* C7: the ratio analyzer never emits an event on a non-exposing message,
\* even when the window ratio is at or above the medium or high threshold;
\* every emitted event coincides with an exposing message just pushed.
C7_OnlyOnExposing ==
    ratio_event # NoEvent =>
        /\ RatioElementExposing
        /\ count(window) > 0
        /\ window.window[count(window)] = TRUE

\* A non-exposing LTE element arrived past the sample floor with the ratio at
\* or above both thresholds: nothing is emitted.
C7_Witness ==
    /\ is_countable_message(ratio_ie)
    /\ ~is_some(classify(ratio_ie))
    /\ count(window) >= config.min_sample_size
    /\ count(window) > 0
    /\ window.window[count(window)] = FALSE
    /\ WindowRatioGe(config.high_threshold)
    /\ WindowRatioGe(config.medium_threshold)
    /\ ratio_event = NoEvent

\* C8: when the current message is exposing and count >= min_sample_size the
\* ratio analyzer emits High if ratio >= high_threshold, otherwise Medium if
\* ratio >= medium_threshold, otherwise no event; it never emits
\* Informational or Low.
C8_Severity ==
    /\ ratio_event.event_type \in {"None", "Medium", "High"}
    /\ (RatioElementExposing /\ count(window) >= config.min_sample_size) =>
          ratio_event.event_type =
             IF WindowRatioGe(config.high_threshold) THEN "High"
             ELSE IF WindowRatioGe(config.medium_threshold) THEN "Medium"
             ELSE "None"

\* An exposing element past the sample floor, with the ratio between a medium
\* threshold and a higher high threshold: Medium is emitted.
C8_Witness ==
    /\ RatioElementExposing
    /\ count(window) >= config.min_sample_size
    /\ config.min_sample_size > 0
    /\ WindowRatioGe(config.medium_threshold)
    /\ ~WindowRatioGe(config.high_threshold)
    /\ ratio_event.event_type = "Medium"

\* ----------------------------------------------------- classifier claims

\* The category the diagnostic analyzer's latest event carries ("None" when
\* it returned no event).
DiagCategory ==
    IF diag_event = NoEvent THEN "None" ELSE diag_event.message[3]

\* The decision table of the classifier as the specification prints it: the
\* category of an LTE element, "None" for every message outside the table.
DecisionTable(ie) ==
    LET emm == ie.channel = "NAS" /\ ie.msg \in EMMMessages
        rrc == ie.channel = "DlDcch"
        pcch == ie.channel = "PCCH"
    IN  CASE emm /\ ie.msg = "EMMIdentityRequest" -> "DirectIdentityRequest"
          [] emm /\ ie.msg = "EMMAttachReject"
                 /\ ie.arg \in {"IllegalUE", "IllegalME", "EPSServicesNotAllowed",
                                "EPSServicesAndNonEPSServicesNotAllowed",
                                "PLMNNotAllowed", "TrackingAreaNotAllowed",
                                "RoamingNotAllowedInThisTrackingArea",
                                "EPSServicesNotAllowedInThisPLMN",
                                "NoSuitableCellsInTrackingArea",
                                "RequestedServiceOptionNotAuthorizedInThisPLMN"}
               -> "AttachReject"
          [] emm /\ ie.msg = "EMMTrackingAreaUpdateReject"
                 /\ ie.arg \in {"IllegalUE", "IllegalME", "EPSServicesNotAllowed",
                                "EPSServicesAndNonEPSServicesNotAllowed",
                                "TrackingAreaNotAllowed",
                                "EPSServicesNotAllowedInThisPLMN",
                                "RequestedServiceOptionNotAuthorizedInThisPLMN"}
               -> "TauReject"
          [] emm /\ ie.msg = "EMMServiceReject"
                 /\ ie.arg \in {"IllegalUE", "IllegalME", "EPSServicesNotAllowed",
                                "UEIdentityCannotBeDerivedByTheNetwork",
                                "TrackingAreaNotAllowed",
                                "EPSServicesNotAllowedInThisPLMN",
                                "RequestedServiceOptionNotAuthorizedInThisPLMN"}
               -> "ServiceReject"
          [] emm /\ ie.msg = "EMMAuthenticationReject" -> "AuthenticationReject"
          [] emm /\ ie.msg = "EMMDetachRequestMT" /\ ie.arg # "IMSIDetach"
               -> "DetachRequest"
          [] rrc /\ ie.msg = "RrcConnectionRelease" /\ ie.arg = "Geran"
               -> "ConnectionRedirect"
          [] pcch /\ ie.msg = "Paging"
                  /\ \E i \in 1..Len(ie.list) : ie.list[i] = "Imsi"
               -> "PagingWithImsi"
          [] OTHER -> "None"

\* C9: classify agrees with the specification's decision table for every LTE
\* message kind and cause: Identity Request and Authentication Reject are
\* always exposing; Attach, TAU and Service Reject exactly for their listed
\* causes; network-initiated Detach Request exactly when the detach type is
\* not IMSIDetach; RRC Connection Release exactly when the redirected carrier
\* is GERAN (category ConnectionRedirect); every message outside the table
\* yields None.
C9_DecisionTable ==
    diag_ie.radio = "LTE" =>
        /\ DiagCategory = DecisionTable(diag_ie)
        /\ is_some(classify(diag_ie)) <=> DecisionTable(diag_ie) # "None"

\* A TAU Reject carrying a cause the Attach Reject row lists and the TAU row
\* does not was classified, and came out as not exposing.
C9_Witness ==
    /\ diag_ie = LteNas("EMMTrackingAreaUpdateReject", "PLMNNotAllowed")
    /\ diag_event = NoEvent

\* C10: a PCCH paging message is classified PagingWithImsi if and only if at
\* least one record of its paging record list, at any position, has an IMSI
\* ue_identity; a paging message with no record list or with only S-TMSI
\* records yields None.
C10_PagingWithImsi ==
    (diag_ie.channel = "PCCH" /\ diag_ie.msg = "Paging") =>
        LET hasImsi == /\ diag_ie.arg = "Some"
                       /\ "Imsi" \in {diag_ie.list[i] : i \in 1..Len(diag_ie.list)}
        IN  /\ DiagCategory = "PagingWithImsi" <=> hasImsi
            /\ ~hasImsi => diag_event = NoEvent
            /\ DiagCategory \in {"PagingWithImsi", "None"}

\* A paging message whose only IMSI record is the last of several was
\* classified PagingWithImsi.
C10_Witness ==
    /\ diag_ie.channel = "PCCH"
    /\ diag_ie.msg = "Paging"
    /\ Len(diag_ie.list) >= 2
    /\ diag_ie.list[Len(diag_ie.list)] = "Imsi"
    /\ \A i \in 1..(Len(diag_ie.list) - 1) : diag_ie.list[i] = "S_TMSI"
    /\ DiagCategory = "PagingWithImsi"

\* ------------------------------------------------------ analyzer harness

\* A log item whose log code the decoder does not know: decoding yields no
\* element and the harness records a skip.
UnknownLogCode == IE("Unknown", "-", "-", "-", "-", <<>>)

\* Log items of the harness runs: an exposing LTE element, an LTE element the
\* classifier does not tag, and an item that does not decode.
ExposingItem == LtePcch("Paging", "Some", <<"S_TMSI", "Imsi">>)

PlainItem == LteOther("UlDcch")

\* MessagesContainers, as the sequence of their log items: one, two and three
\* items, with the exposing item first, last and absent.
Containers ==
    {<<PlainItem>>, <<ExposingItem>>, <<UnknownLogCode>>,
     <<PlainItem, ExposingItem>>, <<ExposingItem, PlainItem>>,
     <<ExposingItem, UnknownLogCode, PlainItem>>}

\* The analyzer selections: every ordered choice among the two analyzers.
AnalyzerSelections ==
    {<<>>, <<"diagnostic">>, <<"ratio">>, <<"diagnostic", "ratio">>,
     <<"ratio", "diagnostic">>}

\* The IMSI-exposure parameters of the harness runs: floors a short capture
\* passes.
HarnessConfigs ==
    {[window_size |-> 2, baseline_ratio |-> <<3, 100>>,
      medium_threshold |-> <<1, 2>>, high_threshold |-> <<1, 1>>,
      min_sample_size |-> 2],
     [window_size |-> 1, baseline_ratio |-> <<3, 100>>,
      medium_threshold |-> <<1, 4>>, high_threshold |-> <<1, 2>>,
      min_sample_size |-> 0]}

\* The ratio analyzer constructed once and kept from one replay to the next.
ImsiExposureRatioAnalyzer_new_KeepWindow(cfg) ==
    [config |-> cfg,
     window |-> window,
     last_classification |-> NoClassification,
     panicked |-> FALSE]

\* ImsiExposureRatioAnalyzer::new
ImsiExposureRatioAnalyzer_new(cfg) ==
    [config |-> cfg,
     window |-> SlidingWindowRatio_new(cfg.window_size),
     last_classification |-> NoClassification,
     panicked |-> FALSE]

\* What the harness holds while it works through one container: the ratio
\* analyzer, the packet counter, the row under construction, and the latest
\* call of each analyzer.
HarnessStart(a, analyzers, num) ==
    [a |-> a,
     packet_num |-> num,
     events |-> [i \in 1..Len(analyzers) |-> NoEvent],
     skipped |-> 0,
     pushed |-> <<>>,
     ratio_ie |-> ratio_ie, ratio_event |-> ratio_event,
     diag_ie |-> diag_ie, diag_event |-> diag_event]

Selected(analyzers, name) == \E i \in 1..Len(analyzers) : analyzers[i] = name

\* Step 2 of the harness algorithm for one log item: a skip, or every
\* analyzer in configured order, an event replacing what its slot held.
Harness_item(analyzers, h, item) ==
    IF item = UnknownLogCode
    THEN {[h EXCEPT !.skipped = @ + 1, !.packet_num = @ + 1]}
    ELSE LET outs == IF Selected(analyzers, "ratio")
                     THEN ratio_analyze(h.a, item)
                     ELSE {[a |-> h.a, event |-> NoEvent, pushed |-> <<>>]}
             diag == diagnostic_analyze(item)
         IN  {[a |-> o.a,
               packet_num |-> h.packet_num + 1,
               events |->
                  [i \in 1..Len(analyzers) |->
                     LET event == IF analyzers[i] = "ratio" THEN o.event
                                  ELSE diag
                     IN  IF event # NoEvent THEN event ELSE h.events[i]],
               skipped |-> h.skipped,
               pushed |-> h.pushed \o o.pushed,
               ratio_ie |-> IF Selected(analyzers, "ratio") THEN item
                            ELSE h.ratio_ie,
               ratio_event |-> IF Selected(analyzers, "ratio") THEN o.event
                               ELSE h.ratio_event,
               diag_ie |-> IF Selected(analyzers, "diagnostic") THEN item
                           ELSE h.diag_ie,
               diag_event |-> IF Selected(analyzers, "diagnostic") THEN diag
                              ELSE h.diag_event]
              : o \in outs}

\* The log items of a container, in order; a panic inside an analyzer ends
\* the processing.
RECURSIVE Harness_items(_, _, _)
Harness_items(analyzers, h, items) ==
    IF items = <<>> \/ h.a.panicked THEN {h}
    ELSE UNION {Harness_items(analyzers, h2, Tail(items))
                : h2 \in Harness_item(analyzers, h, Head(items))}

\* Step 3: the row of a container.
Row(h) == [events |-> h.events, skipped |-> h.skipped]

\* The harness emitting one row per log item instead of one per container.
Harness_analyze_qmdl_messages_RowPerItem(container) ==
    /\ ~panicked
    /\ capture' = Append(capture, container)
    /\ \E h \in Harness_items(harness_analyzers,
                              HarnessStart(RatioAnalyzer, harness_analyzers,
                                           packet_num),
                              container) :
          /\ config' = h.a.config
          /\ window' = h.a.window
          /\ last_classification' = h.a.last_classification
          /\ panicked' = h.a.panicked
          /\ packet_num' = h.packet_num
          /\ rows' = IF h.a.panicked THEN rows
                     ELSE rows \o [i \in 1..Len(container) |-> Row(h)]
          /\ ratio_ie' = h.ratio_ie
          /\ ratio_event' = h.ratio_event
          /\ observations' = observations \o h.pushed
          /\ diag_ie' = h.diag_ie
          /\ diag_event' = h.diag_event
    /\ UNCHANGED harness_analyzers

\* The harness keeping only the events produced, without the empty slots.
Harness_analyze_qmdl_messages_EventsOnly(container) ==
    /\ ~panicked
    /\ capture' = Append(capture, container)
    /\ \E h \in Harness_items(harness_analyzers,
                              HarnessStart(RatioAnalyzer, harness_analyzers,
                                           packet_num),
                              container) :
          /\ config' = h.a.config
          /\ window' = h.a.window
          /\ last_classification' = h.a.last_classification
          /\ panicked' = h.a.panicked
          /\ packet_num' = h.packet_num
          /\ rows' = IF h.a.panicked THEN rows
                     ELSE Append(rows,
                                 [events |-> SelectSeq(h.events,
                                                LAMBDA e : e # NoEvent),
                                  skipped |-> h.skipped])
          /\ ratio_ie' = h.ratio_ie
          /\ ratio_event' = h.ratio_event
          /\ observations' = observations \o h.pushed
          /\ diag_ie' = h.diag_ie
          /\ diag_event' = h.diag_event
    /\ UNCHANGED harness_analyzers

\* Harness::analyze_qmdl_messages: the algorithm per container.
Harness_analyze_qmdl_messages(container) ==
    /\ ~panicked
    /\ capture' = Append(capture, container)
    /\ \E h \in Harness_items(harness_analyzers,
                              HarnessStart(RatioAnalyzer, harness_analyzers,
                                           packet_num),
                              container) :
          /\ config' = h.a.config
          /\ window' = h.a.window
          /\ last_classification' = h.a.last_classification
          /\ panicked' = h.a.panicked
          /\ packet_num' = h.packet_num
          /\ rows' = IF h.a.panicked THEN rows ELSE Append(rows, Row(h))
          /\ ratio_ie' = h.ratio_ie
          /\ ratio_event' = h.ratio_event
          /\ observations' = observations \o h.pushed
          /\ diag_ie' = h.diag_ie
          /\ diag_event' = h.diag_event
    /\ UNCHANGED harness_analyzers

\* A harness fed containers directly, as many as MaxContainers.
AnalyzeContainer ==
    /\ \E container \in Containers :
          /\ Len(capture) < MaxContainers
          /\ Harness_analyze_qmdl_messages(container)
    /\ UNCHANGED replay_vars
    /\ UNCHANGED daemon_vars
    /\ UNCHANGED peripheral_vars

NextHarness == AnalyzeContainer

\* Harness::new_with_config: the selected analyzers, freshly constructed.
InitHarness ==
    /\ \E cfg \in HarnessConfigs : InitAnalyzers(cfg)
    /\ harness_analyzers \in AnalyzerSelections
    /\ packet_num = 0
    /\ capture = <<>>
    /\ rows = <<>>
    /\ NoReplay
    /\ NoDaemon

SpecHarness == InitHarness /\ [][NextHarness]_vars

\* -------------------------------------------------------- replay device

\* The file is kept as the sequence of the containers its frames decode to,
\* and sizes and offsets count containers: a size taken between two appends
\* falls on a frame boundary.

\* Replay speeds: 0 and two multipliers.
Speeds == {0, 1, 2}

\* What a writer appends.
ReplayContainers == {<<PlainItem>>, <<ExposingItem>>}

\* The harness of a replay: both analyzers, a window of two with a sample
\* floor of two.
ReplayAnalyzers == <<"diagnostic", "ratio">>

ReplayConfig ==
    [window_size |-> 2, baseline_ratio |-> <<3, 100>>,
     medium_threshold |-> <<1, 2>>, high_threshold |-> <<1, 1>>,
     min_sample_size |-> 2]

\* QmdlReader::new
QmdlReader_new(size) ==
    /\ known_size' = size
    /\ reader_pos' = 0
    /\ stream_done' = FALSE

\* The offset the reader stops at: known_size when provided, the end of the
\* file otherwise.
QmdlReader_limit ==
    IF known_size.some /\ known_size.value <= Len(file) THEN known_size.value
    ELSE Len(file)

\* QmdlReader::as_stream yielding the next container.
QmdlReader_next(container) ==
    /\ ~stream_done
    /\ reader_pos < QmdlReader_limit
    /\ container = file[reader_pos + 1]
    /\ reader_pos' = reader_pos + 1
    /\ UNCHANGED <<known_size, stream_done>>

\* QmdlReader::as_stream reaching its limit: the stream ends.
QmdlReader_end ==
    /\ ~stream_done
    /\ reader_pos >= QmdlReader_limit
    /\ stream_done' = TRUE
    /\ UNCHANGED <<known_size, reader_pos>>

\* The device opening the reader without a size.
QmdlReplayDevice_new_NoKnownSize(s) ==
    /\ size_at_open' = Len(file)
    /\ QmdlReader_new(NoSize)
    /\ speed' = s
    /\ opened_at' = now

\* QmdlReplayDevice::new: the size of the file at this moment becomes the
\* reader's known_size; speed is stored.
QmdlReplayDevice_new(s) ==
    /\ size_at_open' = Len(file)
    /\ QmdlReader_new(SomeSize(Len(file)))
    /\ speed' = s
    /\ opened_at' = now

\* The stream holding a container back until the wall clock, scaled by
\* speed, has reached its modem timestamp (containers are one time unit
\* apart); speed 0 does not wait.
QmdlReplayDevice_as_stream_Paced(container) ==
    /\ speed > 0 => (now - opened_at) * speed >= reader_pos
    /\ QmdlReader_next(container)

\* QmdlReplayDevice::as_stream: the reader's stream, speed not consulted.
QmdlReplayDevice_as_stream(container) == QmdlReader_next(container)

\* A replay starts (analyze_fixture): the device opens the file and a harness
\* with fresh analyzers is built.  The rows of the replay before are kept
\* aside.
ReplayOpen ==
    /\ run < 2
    /\ run = 0 \/ stream_done
    /\ \E s \in Speeds : QmdlReplayDevice_new(s)
    /\ LET a == ImsiExposureRatioAnalyzer_new(config)
       IN  /\ config' = a.config
           /\ window' = a.window
           /\ last_classification' = a.last_classification
           /\ panicked' = a.panicked
    /\ ratio_ie' = NoElement
    /\ ratio_event' = NoEvent
    /\ observations' = <<>>
    /\ diag_ie' = NoElement
    /\ diag_event' = NoEvent
    /\ packet_num' = 0
    /\ capture' = <<>>
    /\ rows' = <<>>
    /\ prev_rows' = rows
    /\ run' = run + 1
    /\ UNCHANGED <<harness_analyzers, file, now>>
    /\ UNCHANGED daemon_vars
    /\ UNCHANGED peripheral_vars

\* The stream yields a container and the harness turns it into a row.
ReplayMessage ==
    /\ run >= 1
    /\ \E container \in ReplayContainers :
          /\ QmdlReplayDevice_as_stream(container)
          /\ Harness_analyze_qmdl_messages(container)
    /\ UNCHANGED <<file, size_at_open, run, prev_rows, speed, now, opened_at>>
    /\ UNCHANGED daemon_vars
    /\ UNCHANGED peripheral_vars

\* The stream ends.
ReplayEnd ==
    /\ run >= 1
    /\ QmdlReader_end
    /\ UNCHANGED <<ratio_vars, diag_vars, harness_vars, file, size_at_open,
                   run, prev_rows, speed, now, opened_at>>
    /\ UNCHANGED daemon_vars
    /\ UNCHANGED peripheral_vars

\* A writer appends a container to the file, before or while it is replayed.
WriterAppend ==
    /\ Len(file) < MaxFile
    /\ \E container \in ReplayContainers : file' = Append(file, container)
    /\ UNCHANGED <<ratio_vars, diag_vars, harness_vars, known_size,
                   size_at_open, reader_pos, stream_done, run, prev_rows,
                   speed, now, opened_at>>
    /\ UNCHANGED daemon_vars
    /\ UNCHANGED peripheral_vars

\* The wall clock advances.
Tick ==
    /\ now < MaxClock
    /\ now' = now + 1
    /\ UNCHANGED <<ratio_vars, diag_vars, harness_vars, file, known_size,
                   size_at_open, reader_pos, stream_done, run, prev_rows,
                   speed, opened_at>>
    /\ UNCHANGED daemon_vars
    /\ UNCHANGED peripheral_vars

NextReplay ==
    \/ ReplayOpen
    \/ ReplayMessage
    \/ ReplayEnd
    \/ WriterAppend
    \/ Tick

InitReplay ==
    /\ InitAnalyzers(ReplayConfig)
    /\ harness_analyzers = ReplayAnalyzers
    /\ packet_num = 0
    /\ capture = <<>>
    /\ rows = <<>>
    /\ NoReplay
    /\ NoDaemon

SpecReplay == InitReplay /\ [][NextReplay]_vars

\* ------------------------------------------- normal traffic, default config

\* The normal-network scenario of test_normal_network_ratio: 200 messages of
\* which 2 are exposing.
NormalMessages == 200

NormalExposing == 2

\* One exposing and one non-exposing LTE element.
NormalElements == {LteNas("EMMIdentityRequest", "IMSI"), LteOther("UlDcch")}

\* One call of the ratio analyzer within the scenario: at most NormalMessages
\* countable messages, at most NormalExposing of them exposing, at any
\* positions.  No observation leaves a window of 200 within 200 messages, so
\* the running count is the number of exposing messages so far.
AnalyzeNormal ==
    /\ \E ie \in NormalElements :
          /\ Len(observations) < NormalMessages
          /\ is_some(classify(ie)) => window.positive_count < NormalExposing
          /\ analyze_information_element(ie)
    /\ UNCHANGED <<diag_vars, harness_vars, replay_vars>>
    /\ UNCHANGED daemon_vars
    /\ UNCHANGED peripheral_vars

NextDefault == AnalyzeNormal

SpecDefault == InitClassifier /\ [][NextDefault]_vars

\* -------------------------------------------------------- event severity

\* EventType, in declaration order.
EventTypes == <<"Informational", "Low", "Medium", "High">>

\* `event_type as usize`: the position in the declaration, from 0.
EventType_as_usize(t) == CHOOSE i \in 0..3 : EventTypes[i + 1] = t

\* The derived ordering of EventType: declaration order.
EventType_gt(a, b) == EventType_as_usize(a) > EventType_as_usize(b)

EventType_le(a, b) == ~EventType_gt(a, b)

\* An event slot of a row: None or the type of the event it holds.
EventSlots == {"None", "Informational", "Low", "Medium", "High"}

\* The fold keeping the latest event's severity, without the comparison.
fold_max_severity_Latest(current, event) ==
    IF event = "None" THEN current ELSE event

\* analyze_fixture, the body of its inner loop: flatten() passes over an empty
\* slot; the first event sets max_severity and a later one replaces it only
\* if greater.
fold_max_severity(current, event) ==
    IF event = "None" THEN current
    ELSE IF current = "None" THEN event
    ELSE IF EventType_gt(event, current) THEN event
    ELSE current

\* DisplayInfo.event_counts: the number of events of each type, indexed by
\* `event_type as usize`.
event_counts(events) ==
    [i \in 0..3 |->
        Cardinality({k \in 1..Len(events) : events[k] = EventTypes[i + 1]})]

\* highest_severity_color
highest_severity_color(counts) ==
    IF counts[EventType_as_usize("High")] > 0 THEN "RED"
    ELSE IF counts[EventType_as_usize("Medium")] > 0 THEN "ORANGE"
    ELSE IF counts[EventType_as_usize("Low")] > 0 THEN "YELLOW"
    ELSE "MID_GRAY"

\* One more slot of the report goes through the fold.
FoldEvent ==
    /\ Len(report) < MaxReport
    /\ \E event \in EventSlots :
          /\ report' = Append(report, event)
          /\ max_severity' = fold_max_severity(max_severity, event)
    /\ UNCHANGED peripheral_vars
    /\ UNCHANGED <<ratio_vars, diag_vars, harness_vars, replay_vars,
                   construct_vars, tee_vars, session_vars, hdlc_vars>>

NextSeverity == FoldEvent

InitSeverity == InitWith(ImsiExposureConfig_default)

SpecSeverity == InitSeverity /\ [][NextSeverity]_vars

\* ------------------------------------------- reader-to-consumers channel

\* The tee: a single-producer, two-consumer broadcast with bounded buffering.
\* Messages are numbered in the order the reader reads them.
TeeCapacity == 64

\* The latest message a consumer has taken (0 before the first).
Last(taken) == IF taken = <<>> THEN 0 ELSE taken[Len(taken)]

\* The buffered messages a consumer has yet to take.
Pending(buffer, taken) == SelectSeq(buffer, LAMBDA m : m > Last(taken))

\* A message leaves the buffer once both consumers have taken it.
Trim(buffer, w, d) ==
    SelectSeq(buffer, LAMBDA m : m > Last(w) \/ m > Last(d))

\* A send that makes room in a full buffer by discarding its oldest message.
Tee_send_DropOldest(m) ==
    /\ tee' = Append(IF Len(tee) < TeeCapacity THEN tee ELSE Tail(tee), m)

\* Sending into the tee: the sender blocks while the buffer is full.
Tee_send(m) ==
    /\ Len(tee) < TeeCapacity
    /\ tee' = Append(tee, m)

\* The transport reader reads the next message off the device and sends it.
TransportRead ==
    /\ device_read < MaxRead
    /\ device_read' = device_read + 1
    /\ Tee_send(device_read + 1)
    /\ UNCHANGED <<writer_taken, decoder_taken>>
    /\ UNCHANGED peripheral_vars
    /\ UNCHANGED <<ratio_vars, diag_vars, harness_vars, replay_vars,
                   construct_vars, severity_vars, session_vars, hdlc_vars>>

\* The log writer receives its next message.
WriterTake ==
    /\ Pending(tee, writer_taken) # <<>>
    /\ writer_taken' = Append(writer_taken, Head(Pending(tee, writer_taken)))
    /\ tee' = Trim(tee, writer_taken', decoder_taken)
    /\ UNCHANGED <<device_read, decoder_taken>>
    /\ UNCHANGED peripheral_vars
    /\ UNCHANGED <<ratio_vars, diag_vars, harness_vars, replay_vars,
                   construct_vars, severity_vars, session_vars, hdlc_vars>>

\* The decoder receives its next message.
DecoderTake ==
    /\ Pending(tee, decoder_taken) # <<>>
    /\ decoder_taken' = Append(decoder_taken, Head(Pending(tee, decoder_taken)))
    /\ tee' = Trim(tee, writer_taken, decoder_taken')
    /\ UNCHANGED <<device_read, writer_taken>>
    /\ UNCHANGED peripheral_vars
    /\ UNCHANGED <<ratio_vars, diag_vars, harness_vars, replay_vars,
                   construct_vars, severity_vars, session_vars, hdlc_vars>>

NextTee ==
    \/ TransportRead
    \/ WriterTake
    \/ DecoderTake

InitTee == InitWith(ImsiExposureConfig_default)

SpecTee == InitTee /\ [][NextTee]_vars

\* -------------------------------------------------------- recording session
\* The daemon's recording control: the session state machine
\* (Idle -> Recording <-> Paused -> Stopped(reason)), the manifest's
\* current entry, the pipeline of tasks a recording runs, and the answers to
\* the start and stop requests.  session is the state of the latest session;
\* a stopped session is never resumed, a later start opens a new one.

\* The status the daemon answers a start with when the disk is too full.
InsufficientStorageStatus == 507

\* The configuration's default threshold below which a running recording is
\* stopped.
min_space_to_continue_recording_mb == 1

\* The thresholds a configuration sets for starting: the default, one above it
\* and one no disk satisfies.
MinSpaceToStartValues == {1, 2, 999999}

Active == session \in {"Recording", "Paused"}

\* The session ends: the manifest entry is finalised, current_entry is cleared
\* and the pipeline's tasks are cancelled.
Session_finish(reason) ==
    /\ session' = "Stopped"
    /\ stop_reason' = reason
    /\ current_entry' = 0
    /\ pipelines' = pipelines - 1

\* A new session: a new manifest entry becomes the current one and a pipeline
\* is spawned for it.
Session_begin(running) ==
    /\ session' = "Recording"
    /\ stop_reason' = "None"
    /\ entries' = entries + 1
    /\ current_entry' = entries + 1
    /\ pipelines' = running + 1

Session_keep == UNCHANGED <<session, stop_reason, current_entry, entries, pipelines>>

\* A start that arrives while a recording is active is either refused, or the
\* running recording is stopped and a new one started in its place; the two
\* pipelines never both run.
StartWhileActive_SecondPipeline ==
    \/ /\ last_response' = 500
       /\ Session_keep
    \/ /\ entries < MaxEntries
       /\ Session_begin(pipelines)
       /\ last_response' = 200

StartWhileActive ==
    \/ /\ last_response' = 500
       /\ Session_keep
    \/ /\ entries < MaxEntries
       /\ Session_begin(pipelines - 1)
       /\ last_response' = 200

\* The free-space check of start(): InsufficientStorage when the free space is
\* below the configured minimum.
start_has_space_AtLeastContinue == free_mb >= min_space_to_continue_recording_mb

start_has_space == free_mb >= min_space_to_start_recording_mb

\* start(): the disk check comes first; then the transport is opened, which
\* can fail with DeviceBusy or DiagProtocolError (fatal to the start: the
\* session never enters Recording); then the session begins.
StartRequest ==
    /\ last_step' = "start"
    /\ IF ~start_has_space
       THEN /\ last_response' = InsufficientStorageStatus
            /\ Session_keep
       ELSE IF Active
       THEN StartWhileActive
       ELSE \/ /\ last_response' = 500
               /\ Session_keep
            \/ /\ entries < MaxEntries
               /\ Session_begin(pipelines)
               /\ last_response' = 200
    /\ UNCHANGED <<free_mb, min_space_to_start_recording_mb>>
    /\ UNCHANGED peripheral_vars
    /\ UNCHANGED <<ratio_vars, diag_vars, harness_vars, replay_vars, construct_vars,
                   severity_vars, tee_vars, hdlc_vars>>

\* stop(): finalises the current entry; stopping while nothing records succeeds
\* and changes nothing.
StopRequest_KeepEntry ==
    /\ last_step' = "stop"
    /\ last_response' = 200
    /\ IF Active
       THEN /\ session' = "Stopped"
            /\ stop_reason' = "UserStop"
            /\ pipelines' = pipelines - 1
            /\ UNCHANGED <<current_entry, entries>>
       ELSE Session_keep
    /\ UNCHANGED <<free_mb, min_space_to_start_recording_mb>>
    /\ UNCHANGED peripheral_vars
    /\ UNCHANGED <<ratio_vars, diag_vars, harness_vars, replay_vars, construct_vars,
                   severity_vars, tee_vars, hdlc_vars>>

StopRequest ==
    /\ last_step' = "stop"
    /\ last_response' = 200
    /\ IF Active
       THEN Session_finish("UserStop") /\ UNCHANGED entries
       ELSE Session_keep
    /\ UNCHANGED <<free_mb, min_space_to_start_recording_mb>>
    /\ UNCHANGED peripheral_vars
    /\ UNCHANGED <<ratio_vars, diag_vars, harness_vars, replay_vars, construct_vars,
                   severity_vars, tee_vars, hdlc_vars>>

\* Pausing and resuming keep the session, its entry and its pipeline.
PauseRequest ==
    /\ session = "Recording"
    /\ session' = "Paused"
    /\ last_step' = "pause"
    /\ last_response' = 200
    /\ UNCHANGED <<stop_reason, current_entry, entries, pipelines, free_mb,
                   min_space_to_start_recording_mb>>
    /\ UNCHANGED peripheral_vars
    /\ UNCHANGED <<ratio_vars, diag_vars, harness_vars, replay_vars, construct_vars,
                   severity_vars, tee_vars, hdlc_vars>>

ResumeRequest ==
    /\ session = "Paused"
    /\ session' = "Recording"
    /\ last_step' = "resume"
    /\ last_response' = 200
    /\ UNCHANGED <<stop_reason, current_entry, entries, pipelines, free_mb,
                   min_space_to_start_recording_mb>>
    /\ UNCHANGED peripheral_vars
    /\ UNCHANGED <<ratio_vars, diag_vars, harness_vars, replay_vars, construct_vars,
                   severity_vars, tee_vars, hdlc_vars>>

\* The environment fills or frees the disk.
DiskChange ==
    /\ \E mb \in 0..MaxFree :
        /\ mb # free_mb
        /\ free_mb' = mb
    /\ last_step' = "disk"
    /\ UNCHANGED <<session, stop_reason, current_entry, entries, pipelines,
                   min_space_to_start_recording_mb, last_response>>
    /\ UNCHANGED peripheral_vars
    /\ UNCHANGED <<ratio_vars, diag_vars, harness_vars, replay_vars, construct_vars,
                   severity_vars, tee_vars, hdlc_vars>>

\* The watchdog's periodic disk check: a session whose disk has fallen below
\* the continue threshold is stopped with DiskFull.
WatchdogDiskCheck ==
    /\ Active
    /\ free_mb < min_space_to_continue_recording_mb
    /\ Session_finish("DiskFull")
    /\ last_step' = "InsufficientStorage"
    /\ UNCHANGED <<entries, free_mb, min_space_to_start_recording_mb, last_response>>
    /\ UNCHANGED peripheral_vars
    /\ UNCHANGED <<ratio_vars, diag_vars, harness_vars, replay_vars, construct_vars,
                   severity_vars, tee_vars, hdlc_vars>>

\* Data-plane errors: a frame that fails to deframe (FramingError) or a message
\* that fails to decode (DecodeError) is skipped and counted; the session keeps
\* recording.
DataPlaneErrors == {"FramingError", "DecodeError"}

DataPlaneError_Fatal(kind) ==
    /\ session = "Recording"
    /\ last_step' = kind
    /\ Session_finish("DiagError")
    /\ UNCHANGED <<entries, free_mb, min_space_to_start_recording_mb, last_response>>
    /\ UNCHANGED peripheral_vars
    /\ UNCHANGED <<ratio_vars, diag_vars, harness_vars, replay_vars, construct_vars,
                   severity_vars, tee_vars, hdlc_vars>>

DataPlaneError(kind) ==
    /\ session = "Recording"
    /\ last_step' = kind
    /\ Session_keep
    /\ UNCHANGED <<free_mb, min_space_to_start_recording_mb, last_response>>
    /\ UNCHANGED peripheral_vars
    /\ UNCHANGED <<ratio_vars, diag_vars, harness_vars, replay_vars, construct_vars,
                   severity_vars, tee_vars, hdlc_vars>>

\* A transient read error of the transport is retried.
TransientReadError ==
    /\ session = "Recording"
    /\ last_step' = "TransientRead"
    /\ Session_keep
    /\ UNCHANGED <<free_mb, min_space_to_start_recording_mb, last_response>>
    /\ UNCHANGED peripheral_vars
    /\ UNCHANGED <<ratio_vars, diag_vars, harness_vars, replay_vars, construct_vars,
                   severity_vars, tee_vars, hdlc_vars>>

\* The device is gone: the session is stopped with DiagError.
DeviceGone ==
    /\ session = "Recording"
    /\ last_step' = "DeviceGone"
    /\ Session_finish("DiagError")
    /\ UNCHANGED <<entries, free_mb, min_space_to_start_recording_mb, last_response>>
    /\ UNCHANGED peripheral_vars
    /\ UNCHANGED <<ratio_vars, diag_vars, harness_vars, replay_vars, construct_vars,
                   severity_vars, tee_vars, hdlc_vars>>

\* A read or write of the capture or of the report fails (IoError): the
\* operation is retried once, and only a second failure stops the session
\* with DiagError.
IoError ==
    /\ session = "Recording"
    /\ \E retry_ok \in BOOLEAN :
        IF retry_ok
        THEN /\ last_step' = "IoError"
             /\ Session_keep
        ELSE /\ last_step' = "IoErrorRetryFailed"
             /\ Session_finish("DiagError")
             /\ UNCHANGED entries
    /\ UNCHANGED <<free_mb, min_space_to_start_recording_mb, last_response>>
    /\ UNCHANGED peripheral_vars
    /\ UNCHANGED <<ratio_vars, diag_vars, harness_vars, replay_vars, construct_vars,
                   severity_vars, tee_vars, hdlc_vars>>

NextSession ==
    \/ StartRequest
    \/ StopRequest
    \/ PauseRequest
    \/ ResumeRequest
    \/ DiskChange
    \/ WatchdogDiskCheck
    \/ \E kind \in DataPlaneErrors : DataPlaneError(kind)
    \/ TransientReadError
    \/ DeviceGone
    \/ IoError

\* A daemon run starts idle, with the threshold its configuration sets and
\* whatever space the disk has.
InitSession ==
    /\ InitAnalyzers(ImsiExposureConfig_default)
    /\ NoHarness
    /\ NoReplay
    /\ Constructed
    /\ NoReport
    /\ NoHdlc
    /\ session = "Idle"
    /\ stop_reason = "None"
    /\ current_entry = 0
    /\ entries = 0
    /\ pipelines = 0
    /\ free_mb \in 0..MaxFree
    /\ min_space_to_start_recording_mb \in MinSpaceToStartValues
    /\ last_response = 0
    /\ last_step = "none"
    /\ NoPeripherals

SpecSession == InitSession /\ [][NextSession]_vars

\* -------------------------------------------------------------- HDLC framer
\* Bytes are the integers 0..255.  A message is framed as its bytes followed
\* by its CRC-16/X-25, little-endian, all of it escaped, then one terminator.
HDLC_TERMINATOR == 126

HDLC_ESCAPE == 125

\* What follows the escape byte for an escaped 0x7d (0x5d) and an escaped
\* 0x7e (0x5e).
HDLC_ESCAPED_ESCAPE == 93

HDLC_ESCAPED_TERMINATOR == 94

\* CRC-16/X-25: initial value 0xFFFF, reflected polynomial 0x8408, final
\* xor 0xFFFF.
CRC_INIT == 65535

CRC_POLY_REFLECTED == 33800

CRC_XOR_OUT == 65535

\* The bytes the framer is exercised with: the two bytes that need escaping,
\* the two that follow an escape, and 0x19, whose CRC holds a 0x7d.
HdlcBytes == {25, HDLC_ESCAPED_ESCAPE, HDLC_ESCAPED_TERMINATOR, HDLC_ESCAPE, HDLC_TERMINATOR}

RECURSIVE Xor(_, _)
Xor(a, b) ==
    IF a = 0 THEN b
    ELSE IF b = 0 THEN a
    ELSE ((a + b) % 2) + 2 * Xor(a \div 2, b \div 2)

\* One bit of the reflected CRC: shift right, and xor the polynomial in when
\* the bit shifted out was set.
RECURSIVE crc_shift(_, _)
crc_shift(crc, bits) ==
    IF bits = 0 THEN crc
    ELSE crc_shift(IF crc % 2 = 1 THEN Xor(crc \div 2, CRC_POLY_REFLECTED)
                   ELSE crc \div 2,
                   bits - 1)

RECURSIVE crc_update(_, _, _)
crc_update(crc, bytes, i) ==
    IF i > Len(bytes) THEN crc
    ELSE crc_update(crc_shift(Xor(crc, bytes[i]), 8), bytes, i + 1)

crc16_x25(bytes) == Xor(crc_update(CRC_INIT, bytes, 1), CRC_XOR_OUT)

\* The CRC as the frame carries it: low byte first.
crc_le_bytes(bytes) == <<crc16_x25(bytes) % 256, crc16_x25(bytes) \div 256>>

NeedsEscape(b) == b \in {HDLC_ESCAPE, HDLC_TERMINATOR}

RECURSIVE hdlc_escape(_, _)
hdlc_escape(bytes, i) ==
    IF i > Len(bytes) THEN <<>>
    ELSE (IF bytes[i] = HDLC_TERMINATOR THEN <<HDLC_ESCAPE, HDLC_ESCAPED_TERMINATOR>>
          ELSE IF bytes[i] = HDLC_ESCAPE THEN <<HDLC_ESCAPE, HDLC_ESCAPED_ESCAPE>>
          ELSE <<bytes[i]>>)
         \o hdlc_escape(bytes, i + 1)

\* encode: append the CRC, escape, terminate.
hdlc_encode_CrcUnescaped(msg) ==
    hdlc_escape(msg, 1) \o crc_le_bytes(msg) \o <<HDLC_TERMINATOR>>

hdlc_encode_LeadingTerminator(msg) ==
    <<HDLC_TERMINATOR>> \o hdlc_escape(msg \o crc_le_bytes(msg), 1) \o <<HDLC_TERMINATOR>>

hdlc_encode(msg) ==
    hdlc_escape(msg \o crc_le_bytes(msg), 1) \o <<HDLC_TERMINATOR>>

\* The results of decode_stream: Ok(bytes) or a framing error.
HdlcOk(bytes) == [ok |-> TRUE, bytes |-> bytes, error |-> "None"]

HdlcErr(kind) == [ok |-> FALSE, bytes |-> <<>>, error |-> kind]

\* De-escape the bytes between two terminators: BadEscape for a lone 0x7d at
\* the end or a 0x7d followed by a byte that is neither 0x5d nor 0x5e.
RECURSIVE hdlc_unescape(_, _, _)
hdlc_unescape(raw, i, out) ==
    IF i > Len(raw) THEN HdlcOk(out)
    ELSE IF raw[i] # HDLC_ESCAPE THEN hdlc_unescape(raw, i + 1, Append(out, raw[i]))
    ELSE IF i = Len(raw) THEN HdlcErr("BadEscape")
    ELSE IF raw[i + 1] = HDLC_ESCAPED_TERMINATOR
         THEN hdlc_unescape(raw, i + 2, Append(out, HDLC_TERMINATOR))
    ELSE IF raw[i + 1] = HDLC_ESCAPED_ESCAPE
         THEN hdlc_unescape(raw, i + 2, Append(out, HDLC_ESCAPE))
    ELSE HdlcErr("BadEscape")

\* One frame: after de-escaping, the last two bytes are the CRC of the bytes
\* before them.
hdlc_decode_frame(raw) ==
    LET unescaped == hdlc_unescape(raw, 1, <<>>)
        n == Len(unescaped.bytes)
    IN  IF ~unescaped.ok THEN unescaped
        ELSE IF n < 2 THEN HdlcErr("BadCrc")
        ELSE IF SubSeq(unescaped.bytes, n - 1, n) # crc_le_bytes(SubSeq(unescaped.bytes, 1, n - 2))
             THEN HdlcErr("BadCrc")
        ELSE HdlcOk(SubSeq(unescaped.bytes, 1, n - 2))

\* decode_stream: one result per terminator; nothing between two terminators
\* is skipped, not reported; bytes after the last terminator are Unterminated.
RECURSIVE hdlc_decode_stream(_, _, _)
hdlc_decode_stream(input, i, raw) ==
    IF i > Len(input)
    THEN IF raw = <<>> THEN <<>> ELSE <<HdlcErr("Unterminated")>>
    ELSE IF input[i] # HDLC_TERMINATOR
    THEN hdlc_decode_stream(input, i + 1, Append(raw, input[i]))
    ELSE IF raw = <<>>
    THEN hdlc_decode_stream(input, i + 1, <<>>)
    ELSE <<hdlc_decode_frame(raw)>> \o hdlc_decode_stream(input, i + 1, <<>>)

\* The messages handed to the framer.
RECURSIVE BytesUpTo(_)
BytesUpTo(n) ==
    IF n = 0 THEN {<<>>}
    ELSE BytesUpTo(n - 1) \cup
         {Append(m, b) : m \in {m \in BytesUpTo(n - 1) : Len(m) = n - 1}, b \in HdlcBytes}

Encode ==
    /\ hdlc_phase = "message"
    /\ hdlc_encoded' = hdlc_encode(hdlc_msg)
    /\ hdlc_phase' = "encoded"
    /\ UNCHANGED <<hdlc_msg, hdlc_decoded>>
    /\ UNCHANGED peripheral_vars
    /\ UNCHANGED <<ratio_vars, diag_vars, harness_vars, replay_vars, construct_vars,
                   severity_vars, tee_vars, session_vars>>

Decode ==
    /\ hdlc_phase = "encoded"
    /\ hdlc_decoded' = hdlc_decode_stream(hdlc_encoded, 1, <<>>)
    /\ hdlc_phase' = "decoded"
    /\ UNCHANGED <<hdlc_msg, hdlc_encoded>>
    /\ UNCHANGED peripheral_vars
    /\ UNCHANGED <<ratio_vars, diag_vars, harness_vars, replay_vars, construct_vars,
                   severity_vars, tee_vars, session_vars>>

NextHdlc ==
    \/ Encode
    \/ Decode

InitHdlc ==
    /\ InitAnalyzers(ImsiExposureConfig_default)
    /\ NoHarness
    /\ NoReplay
    /\ Constructed
    /\ NoReport
    /\ NoSession
    /\ hdlc_msg \in BytesUpTo(MaxLen)
    /\ hdlc_encoded = <<>>
    /\ hdlc_decoded = <<>>
    /\ hdlc_phase = "message"
    /\ NoPeripherals

SpecHdlc == InitHdlc /\ [][NextHdlc]_vars

\* ------------------------------------------------------------ construction
\* SlidingWindowRatio::new and ImsiExposureRatioAnalyzer::new with the
\* assertion of the former made explicit: a caller asks for the capacity
\* config.window_size, which may be 0.

\* The assertion without its check.
window_size_positive_Unchecked(window_size) == window_size >= 0

\* assert!(window_size > 0, "window_size must be positive")
window_size_positive(window_size) == window_size > 0

\* No window exists (before construction, or after the panic).
NoWindow == [window |-> <<>>, window_size |-> 0, positive_count |-> 0]

\* SlidingWindowRatio::new: the window, or the panic of the assertion.
SlidingWindowRatio_try_new(window_size) ==
    IF window_size_positive(window_size)
    THEN [panic |-> FALSE, message |-> "", value |-> SlidingWindowRatio_new(window_size)]
    ELSE [panic |-> TRUE, message |-> "window_size must be positive", value |-> NoWindow]

\* The configurations a caller can hand over: as Configs, and with
\* window_size 0 as well.
AttemptedConfigs ==
    [window_size : 0..MaxWindow,
     baseline_ratio : {<<3, 100>>},
     medium_threshold : Thresholds,
     high_threshold : Thresholds,
     min_sample_size : 0..MaxMinSample]

\* SlidingWindowRatio::new(config.window_size), called directly.
ConstructWindow ==
    /\ constructed = "no"
    /\ LET w == SlidingWindowRatio_try_new(config.window_size)
       IN  IF w.panic
           THEN /\ constructed' = "window_panicked"
                /\ panic_message' = w.message
                /\ UNCHANGED window
           ELSE /\ constructed' = "window"
                /\ window' = w.value
                /\ UNCHANGED panic_message
    /\ UNCHANGED <<config, last_classification, panicked, ratio_ie, ratio_event,
                   observations>>
    /\ UNCHANGED peripheral_vars
    /\ UNCHANGED <<diag_vars, harness_vars, replay_vars, severity_vars, tee_vars,
                   session_vars, hdlc_vars>>

\* ImsiExposureRatioAnalyzer::new(config): the window is constructed first,
\* and its panic is the constructor's.
ConstructAnalyzer ==
    /\ constructed = "no"
    /\ LET w == SlidingWindowRatio_try_new(config.window_size)
       IN  IF w.panic
           THEN /\ constructed' = "analyzer_panicked"
                /\ panic_message' = w.message
                /\ UNCHANGED <<window, last_classification>>
           ELSE /\ constructed' = "yes"
                /\ window' = w.value
                /\ last_classification' = NoClassification
                /\ UNCHANGED panic_message
    /\ UNCHANGED <<config, panicked, ratio_ie, ratio_event, observations>>
    /\ UNCHANGED peripheral_vars
    /\ UNCHANGED <<diag_vars, harness_vars, replay_vars, severity_vars, tee_vars,
                   session_vars, hdlc_vars>>

\* The analyzer, once it exists, is called.
AnalyzeConstructed ==
    /\ constructed = "yes"
    /\ AnalyzeRatio

NextConstruct ==
    \/ ConstructWindow
    \/ ConstructAnalyzer
    \/ AnalyzeConstructed

InitConstruct ==
    /\ config \in AttemptedConfigs
    /\ window = NoWindow
    /\ last_classification = NoClassification
    /\ panicked = FALSE
    /\ ratio_ie = NoElement
    /\ ratio_event = NoEvent
    /\ observations = <<>>
    /\ diag_ie = NoElement
    /\ diag_event = NoEvent
    /\ NoHarness
    /\ NoReplay
    /\ constructed = "no"
    /\ panic_message = ""
    /\ NoReport
    /\ NoSession
    /\ NoHdlc
    /\ NoPeripherals

SpecConstruct == InitConstruct /\ [][NextConstruct]_vars

\* ------------------------------------------------ wpa_supplicant configuration
\* Strings are sequences of characters.  The SSIDs are built from an ordinary
\* character, a space, the double quote and the backslash.
SsidChars == {"a", " ", "\"", "\\"}

Whitespace == {" ", "\n", "\t", "\r"}

RECURSIVE StringsUpTo(_, _)
StringsUpTo(alphabet, n) ==
    IF n = 0 THEN {<<>>}
    ELSE StringsUpTo(alphabet, n - 1) \cup
         {Append(s, c) : s \in {s \in StringsUpTo(alphabet, n - 1) : Len(s) = n - 1},
                         c \in alphabet}

\* str::replace: every non-overlapping match, from the left.
RECURSIVE str_replace(_, _, _)
str_replace(s, pat, rep) ==
    IF Len(s) < Len(pat) THEN s
    ELSE IF SubSeq(s, 1, Len(pat)) = pat
         THEN rep \o str_replace(SubSeq(s, Len(pat) + 1, Len(s)), pat, rep)
    ELSE <<Head(s)>> \o str_replace(Tail(s), pat, rep)

\* str::trim
RECURSIVE trim_start(_)
trim_start(s) ==
    IF s # <<>> /\ Head(s) \in Whitespace THEN trim_start(Tail(s)) ELSE s

RECURSIVE trim_end(_)
trim_end(s) ==
    IF s # <<>> /\ s[Len(s)] \in Whitespace
    THEN trim_end(SubSeq(s, 1, Len(s) - 1))
    ELSE s

trim(s) == trim_end(trim_start(s))

\* str::lines: the pieces between line feeds, without the final empty piece
\* and without the carriage return before a line feed.
str_lines(s) ==
    LET feeds == {i \in 1..Len(s) : s[i] = "\n"}
        feed(k) == IF k = 0 THEN 0
                   ELSE CHOOSE i \in feeds : Cardinality({j \in feeds : j < i}) = k - 1
        n == Cardinality(feeds)
        piece(k) == SubSeq(s, feed(k - 1) + 1, feed(k) - 1)
        ended(k) == IF piece(k) # <<>> /\ piece(k)[Len(piece(k))] = "\r"
                    THEN SubSeq(piece(k), 1, Len(piece(k)) - 1)
                    ELSE piece(k)
        rest == SubSeq(s, feed(n) + 1, Len(s))
    IN  [k \in 1..n |-> ended(k)] \o (IF rest = <<>> THEN <<>> ELSE <<rest>>)

strip_prefix(s, prefix) ==
    IF Len(s) >= Len(prefix) /\ SubSeq(s, 1, Len(prefix)) = prefix
    THEN SomeString(SubSeq(s, Len(prefix) + 1, Len(s)))
    ELSE NoString

strip_suffix(s, suffix) ==
    IF Len(s) >= Len(suffix) /\ SubSeq(s, Len(s) - Len(suffix) + 1, Len(s)) = suffix
    THEN SomeString(SubSeq(s, 1, Len(s) - Len(suffix)))
    ELSE NoString

\* The fixed text of the file format_wpa_conf writes: up to the SSID, between
\* the SSID and the password, and after the password.
WpaConfHead ==
    <<"c", "t", "r", "l", "_", "i", "n", "t", "e", "r", "f", "a", "c", "e",
      "=", "/", "v", "a", "r", "/", "r", "u", "n", "/", "w", "p", "a", "_",
      "s", "u", "p", "p", "l", "i", "c", "a", "n", "t", "\n", "n", "e",
      "t", "w", "o", "r", "k", "=", "{", "\n", " ", " ", " ", " ", "s",
      "s", "i", "d", "=", "\"">>

WpaConfMiddle ==
    <<"\"", "\n", " ", " ", " ", " ", "p", "s", "k", "=", "\"">>

WpaConfTail ==
    <<"\"", "\n", " ", " ", " ", " ", "k", "e", "y", "_", "m", "g", "m",
      "t", "=", "W", "P", "A", "-", "P", "S", "K", "\n", "}", "\n">>

SsidPrefix ==
    <<"s", "s", "i", "d", "=", "\"">>

\* format_wpa_conf escaping the quotes before the backslashes.
format_wpa_conf_QuotesFirst(ssid, password) ==
    LET escape(s) == str_replace(str_replace(s, <<"\"">>, <<"\\", "\"">>),
                                 <<"\\">>, <<"\\", "\\">>)
    IN  WpaConfHead \o escape(ssid) \o WpaConfMiddle \o escape(password) \o WpaConfTail

\* format_wpa_conf: backslashes are doubled, then quotes are escaped, in both
\* fields.
format_wpa_conf(ssid, password) ==
    LET escape(s) == str_replace(str_replace(s, <<"\\">>, <<"\\", "\\">>),
                                 <<"\"">>, <<"\\", "\"">>)
    IN  WpaConfHead \o escape(ssid) \o WpaConfMiddle \o escape(password) \o WpaConfTail

\* The closure of find_map: the SSID a line holds, if it holds one.
ssid_of_line(line) ==
    LET stripped == strip_prefix(trim(line), SsidPrefix)
        inner == IF stripped.some THEN strip_suffix(stripped.value, <<"\"">>)
                 ELSE NoString
    IN  IF inner.some
        THEN SomeString(str_replace(str_replace(inner.value, <<"\\", "\"">>, <<"\"">>),
                                    <<"\\", "\\">>, <<"\\">>))
        ELSE NoString

RECURSIVE find_map_ssid(_, _)
find_map_ssid(lines, i) ==
    IF i > Len(lines) THEN NoString
    ELSE IF ssid_of_line(lines[i]).some THEN ssid_of_line(lines[i])
    ELSE find_map_ssid(lines, i + 1)

\* read_ssid_from_wpa_conf: None when the file cannot be read, else the SSID
\* of the first line that holds one.
read_ssid_from_wpa_conf(f) ==
    IF ~f.exists THEN NoString
    ELSE find_map_ssid(str_lines(f.content), 1)

\* The permission bits update_wpa_conf_at sets after writing (0o600).
WPA_CONF_MODE == 384

is_blank(opt) == ~(opt.some /\ trim(opt.value) # <<>>)

\* update_wpa_conf_at removing the file unless both fields are set.
update_wpa_conf_at_RemoveUnlessBoth(ssid, password, f) ==
    IF ~is_blank(ssid) /\ ~is_blank(password)
    THEN [exists |-> TRUE,
          content |-> format_wpa_conf(ssid.value, password.value),
          mode |-> WPA_CONF_MODE]
    ELSE NoFile

\* update_wpa_conf_at: the file after the call, f being the file before it.
update_wpa_conf_at(ssid, password, f) ==
    LET has_ssid == ~is_blank(ssid)
        has_password == ~is_blank(password)
    IN  IF has_ssid /\ has_password
        THEN [exists |-> TRUE,
              content |-> format_wpa_conf(ssid.value, password.value),
              mode |-> WPA_CONF_MODE]
        ELSE IF ~has_ssid THEN NoFile
        ELSE f

\* The settings a configuration can hold for the network and its password:
\* absent, empty, blank, and set (with blanks around it, with characters that
\* are escaped).
ConfSsids ==
    {NoString, SomeString(<<>>), SomeString(<<" ">>), SomeString(<<"\t", " ">>),
     SomeString(<<"a">>), SomeString(<<" ", "a", " ">>), SomeString(<<"b", "\"">>)}

ConfPasswords ==
    {NoString, SomeString(<<>>), SomeString(<<" ">>), SomeString(<<"p">>),
     SomeString(<<"q", "\\">>), SomeString(<<" ", "r">>)}

\* A file someone else left at the path.
ForeignFile == [exists |-> TRUE, content |-> <<"x", "\n">>, mode |-> 420]

\* The configuration is set and update_wpa_conf runs.
UpdateWpaConf ==
    /\ \E ssid \in ConfSsids, password \in ConfPasswords :
          /\ wifi_ssid' = ssid
          /\ wifi_password' = password
          /\ wpa_file' = update_wpa_conf_at(ssid, password, wpa_file)
    /\ wpa_step' = "update"
    /\ UNCHANGED read_ssid
    /\ UNCHANGED <<ratio_vars, diag_vars, harness_vars, replay_vars, daemon_vars,
                   beside_wpa>>

NextWpaConf == UpdateWpaConf

InitWpaConf ==
    /\ InitAnalyzers(ImsiExposureConfig_default)
    /\ NoHarness
    /\ NoReplay
    /\ Constructed
    /\ NoReport
    /\ NoSession
    /\ NoHdlc
    /\ NoBeside_wpa
    /\ wifi_ssid = NoString
    /\ wifi_password = NoString
    /\ wpa_file \in {NoFile, ForeignFile}
    /\ read_ssid = NoString
    /\ wpa_step = "none"

SpecWpaConf == InitWpaConf /\ [][NextWpaConf]_vars

\* The round trip of the tests: the formatted text is written to a file and
\* the SSID is read back from it.
Passwords == {<<>>, <<"p">>, <<"\"", "\\">>, <<"\n">> \o SsidPrefix \o <<"x", "\"">>}

WriteFormatted ==
    /\ wpa_step = "none"
    /\ wpa_file' = [exists |-> TRUE,
                    content |-> format_wpa_conf(wifi_ssid.value, wifi_password.value),
                    mode |-> 420]
    /\ wpa_step' = "written"
    /\ UNCHANGED <<wifi_ssid, wifi_password, read_ssid>>
    /\ UNCHANGED <<ratio_vars, diag_vars, harness_vars, replay_vars, daemon_vars,
                   beside_wpa>>

ReadSsid ==
    /\ wpa_step = "written"
    /\ read_ssid' = read_ssid_from_wpa_conf(wpa_file)
    /\ wpa_step' = "read"
    /\ UNCHANGED <<wifi_ssid, wifi_password, wpa_file>>
    /\ UNCHANGED <<ratio_vars, diag_vars, harness_vars, replay_vars, daemon_vars,
                   beside_wpa>>

NextWpaRoundTrip ==
    \/ WriteFormatted
    \/ ReadSsid

InitWpaRoundTrip ==
    /\ InitAnalyzers(ImsiExposureConfig_default)
    /\ NoHarness
    /\ NoReplay
    /\ Constructed
    /\ NoReport
    /\ NoSession
    /\ NoHdlc
    /\ NoBeside_wpa
    /\ wifi_ssid \in {SomeString(s) : s \in StringsUpTo(SsidChars, MaxSsid)}
    /\ wifi_password \in {SomeString(p) : p \in Passwords}
    /\ wpa_file = NoFile
    /\ read_ssid = NoString
    /\ wpa_step = "none"

SpecWpaRoundTrip == InitWpaRoundTrip /\ [][NextWpaRoundTrip]_vars

\* ------------------------------------------------------------- WiFi scan
\* A line of the output of "iw dev <iface> scan": whether it is indented, the
\* key it starts with after the indentation, and what follows the key (the
\* text of an SSID line; the reading of a signal line in tenths of a dBm, or
\* a text that does not parse as a number).
ScanLine(key, indent, text, tenths, parses) ==
    [key |-> key, indent |-> indent, text |-> text, tenths |-> tenths,
     parses |-> parses]

BssLine == ScanLine("BSS ", FALSE, <<>>, 0, TRUE)

BssLoadLine == ScanLine("BSS ", TRUE, <<>>, 0, TRUE)

SsidLine(text) == ScanLine("SSID: ", TRUE, text, 0, TRUE)

SignalLine(tenths) == ScanLine("signal: ", TRUE, <<>>, tenths, TRUE)

BadSignalLine == ScanLine("signal: ", TRUE, <<>>, 0, FALSE)

RsnLine == ScanLine("RSN:", TRUE, <<>>, 0, TRUE)

WpaLine == ScanLine("WPA:", TRUE, <<>>, 0, TRUE)

SsidKey == <<"S", "S", "I", "D", ":", " ">>

\* The signal before a block reports one, and of a reading that does not
\* parse.
DEFAULT_SIGNAL == -100

\* trimmed.strip_prefix("SSID: "): the line is trimmed first, so an SSID line
\* with nothing after the key has lost the key's space and does not match.
scan_ssid(line) ==
    IF line.key # "SSID: " THEN NoString
    ELSE strip_prefix(trim((IF line.indent THEN <<"\t">> ELSE <<>>) \o SsidKey \o line.text),
                      SsidKey)

\* dbm.parse::<f32>().unwrap_or(-100.0) as i32: the cast truncates toward 0.
scan_signal(line) ==
    IF ~line.parses THEN DEFAULT_SIGNAL
    ELSE IF line.tenths >= 0 THEN line.tenths \div 10
    ELSE -((-line.tenths) \div 10)

Network(ssid, signal, security) ==
    [ssid |-> ssid, signal_dbm |-> signal, security |-> security]

\* push_or_update keeping the signal of the first block of an SSID.
push_or_update_KeepFirst(nets, ssid, signal, security) ==
    IF \E i \in 1..Len(nets) : nets[i].ssid = ssid
    THEN nets
    ELSE Append(nets, Network(ssid, signal,
                              IF security = "" THEN "Open" ELSE security))

\* push_or_update: the first network of that SSID takes the signal if it is
\* stronger; a new SSID is appended.
push_or_update(nets, ssid, signal, security) ==
    IF \E i \in 1..Len(nets) : nets[i].ssid = ssid
    THEN LET i == CHOOSE i \in 1..Len(nets) :
                     /\ nets[i].ssid = ssid
                     /\ \A j \in 1..(i - 1) : nets[j].ssid # ssid
         IN  IF signal > nets[i].signal_dbm
             THEN [nets EXCEPT ![i].signal_dbm = signal]
             ELSE nets
    ELSE Append(nets, Network(ssid, signal,
                              IF security = "" THEN "Open" ELSE security))

\* What the loop of parse_iw_scan carries from line to line.
ScanStart ==
    [networks |-> <<>>, current_ssid |-> NoString,
     current_signal |-> DEFAULT_SIGNAL, current_security |-> ""]

\* The pending block is pushed if it has a non-empty SSID.
scan_flush(st) ==
    IF st.current_ssid.some /\ st.current_ssid.value # <<>>
    THEN push_or_update(st.networks, st.current_ssid.value, st.current_signal,
                        st.current_security)
    ELSE st.networks

\* One iteration of the loop.
scan_line(st, line) ==
    IF line.key = "BSS " /\ ~line.indent
    THEN [networks |-> scan_flush(st), current_ssid |-> NoString,
          current_signal |-> DEFAULT_SIGNAL, current_security |-> ""]
    ELSE IF scan_ssid(line).some
    THEN [st EXCEPT !.current_ssid = scan_ssid(line)]
    ELSE IF line.key = "signal: "
    THEN [st EXCEPT !.current_signal = scan_signal(line)]
    ELSE IF line.key = "RSN:"
    THEN [st EXCEPT !.current_security = "WPA2"]
    ELSE IF line.key = "WPA:" /\ st.current_security = ""
    THEN [st EXCEPT !.current_security = "WPA"]
    ELSE st

RECURSIVE scan_loop(_, _, _)
scan_loop(st, lines, i) ==
    IF i > Len(lines) THEN st ELSE scan_loop(scan_line(st, lines[i]), lines, i + 1)

\* sort_by(|a, b| b.signal_dbm.cmp(&a.signal_dbm)): stable, strongest first.
sort_by_signal(nets) ==
    LET before(j, i) == \/ nets[j].signal_dbm > nets[i].signal_dbm
                        \/ nets[j].signal_dbm = nets[i].signal_dbm /\ j < i
        rank(i) == 1 + Cardinality({j \in 1..Len(nets) : before(j, i)})
    IN  [k \in 1..Len(nets) |-> nets[CHOOSE i \in 1..Len(nets) : rank(i) = k]]

\* parse_iw_scan
parse_iw_scan(lines) ==
    sort_by_signal(scan_flush(scan_loop(ScanStart, lines, 1)))

\* The BSS blocks a scan reports: two networks at several strengths, with the
\* lines in either order, with a fractional reading, without a reading, with
\* a reading that does not parse, with a hidden SSID, and with an SSID that
\* has a space before it.
ScanBlocks ==
    {<<BssLine, SignalLine(-800), SsidLine(<<"A">>), RsnLine>>,
     <<BssLine, SignalLine(-455), SsidLine(<<"A">>), WpaLine, RsnLine>>,
     <<BssLine, SsidLine(<<"A">>), SignalLine(-300)>>,
     <<BssLine, BssLoadLine, SsidLine(<<"A">>)>>,
     <<BssLine, SignalLine(-300), SsidLine(<<"B">>), WpaLine>>,
     <<BssLine, BadSignalLine, SsidLine(<<"B">>)>>,
     <<BssLine, SignalLine(-200), SsidLine(<<>>), RsnLine>>,
     <<BssLine, SignalLine(-600), SsidLine(<<" ", "B", " ">>)>>}

RECURSIVE Flatten(_)
Flatten(blocks) ==
    IF blocks = <<>> THEN <<>> ELSE Head(blocks) \o Flatten(Tail(blocks))

RECURSIVE BlocksUpTo(_)
BlocksUpTo(n) ==
    IF n = 0 THEN {<<>>}
    ELSE BlocksUpTo(n - 1) \cup
         {Append(s, b) : s \in {s \in BlocksUpTo(n - 1) : Len(s) = n - 1},
                         b \in ScanBlocks}

ParseScan ==
    /\ scan_step = "none"
    /\ networks' = parse_iw_scan(Flatten(scan_blocks))
    /\ scan_step' = "parsed"
    /\ UNCHANGED scan_blocks
    /\ UNCHANGED <<ratio_vars, diag_vars, harness_vars, replay_vars, daemon_vars,
                   beside_scan>>

NextScan == ParseScan

InitScan ==
    /\ InitAnalyzers(ImsiExposureConfig_default)
    /\ NoHarness
    /\ NoReplay
    /\ Constructed
    /\ NoReport
    /\ NoSession
    /\ NoHdlc
    /\ NoBeside_scan
    /\ scan_blocks \in BlocksUpTo(MaxBss)
    /\ networks = <<>>
    /\ scan_step = "none"

SpecScan == InitScan /\ [][NextScan]_vars

\* --------------------------------------------------------------- installer
\* install_file of the UZ801 installer, one device command per step.  Its one
\* caller installs to /data/rayhunter/rayhunter-daemon, so the copy in
\* /data/local/tmp and the destination are different files.  A file is named
\* by its content: "absent", an older build "v1", the payload "v2", or "torn"
\* (what a transfer that went wrong leaves).
MAX_RETRIES == 3

FileContents == {"absent", "v1", "v2", "torn"}

\* md5_compute: no two of the contents share a digest.
md5_compute(content) == <<"md5", content>>

\* The check of an attempt with the output of md5sum ignored.
md5_verifies_CommandOnly(command_ok, content, payload) == command_ok

\* The check of an attempt: the md5sum command succeeded and its output
\* contains the digest of the payload.
md5_verifies(command_ok, content, payload) ==
    /\ command_ok
    /\ content # "absent"
    /\ md5_compute(content) = md5_compute(payload)

\* adb push to the temporary path: it succeeds, with the payload or with a
\* torn copy on the device, or fails, leaving what was there or a torn copy.
InstallPush ==
    /\ install_pc = "push"
    /\ install_pushes' = install_pushes + 1
    /\ \E ok \in BOOLEAN, content \in {install_payload, "torn", tmp_file} :
          /\ ok => content # tmp_file \/ tmp_file = install_payload
          /\ tmp_file' = content
          /\ IF ok
             THEN /\ install_pc' = "md5sum"
                  /\ UNCHANGED install_attempt
             ELSE IF install_attempt = MAX_RETRIES
             THEN /\ install_pc' = "err"
                  /\ UNCHANGED install_attempt
             ELSE /\ install_pc' = "push"
                  /\ install_attempt' = install_attempt + 1
    /\ UNCHANGED <<install_payload, dest_file, dest_before, install_verified>>
    /\ UNCHANGED <<ratio_vars, diag_vars, harness_vars, replay_vars, daemon_vars,
                   beside_install>>

\* busybox md5sum of the temporary copy, and what follows from it: the move,
\* the removal before the next attempt, or the error after the last.
InstallMd5sum ==
    /\ install_pc = "md5sum"
    /\ \E command_ok \in BOOLEAN :
          /\ install_verified' =
                (install_verified \/ (command_ok /\ tmp_file = install_payload))
          /\ install_pc' =
                IF md5_verifies(command_ok, tmp_file, install_payload) THEN "mv"
                ELSE IF install_attempt < MAX_RETRIES THEN "rm"
                ELSE "err"
    /\ UNCHANGED <<install_attempt, install_pushes, install_payload, tmp_file,
                   dest_file, dest_before>>
    /\ UNCHANGED <<ratio_vars, diag_vars, harness_vars, replay_vars, daemon_vars,
                   beside_install>>

\* mv of the verified copy onto the destination; its failure is returned and
\* may leave the destination as it was or torn.
InstallMv ==
    /\ install_pc = "mv"
    /\ \/ /\ dest_file' = tmp_file
          /\ tmp_file' = "absent"
          /\ install_pc' = "ok"
       \/ /\ dest_file' \in {dest_file, "torn"}
          /\ UNCHANGED tmp_file
          /\ install_pc' = "err"
    /\ UNCHANGED <<install_attempt, install_pushes, install_payload, dest_before,
                   install_verified>>
    /\ UNCHANGED <<ratio_vars, diag_vars, harness_vars, replay_vars, daemon_vars,
                   beside_install>>

\* rm -f of the copy that did not verify (its failure is ignored), then the
\* next attempt.
InstallRm ==
    /\ install_pc = "rm"
    /\ tmp_file' \in {"absent", tmp_file}
    /\ install_attempt' = install_attempt + 1
    /\ install_pc' = "push"
    /\ UNCHANGED <<install_pushes, install_payload, dest_file, dest_before,
                   install_verified>>
    /\ UNCHANGED <<ratio_vars, diag_vars, harness_vars, replay_vars, daemon_vars,
                   beside_install>>

NextInstall ==
    \/ InstallPush
    \/ InstallMd5sum
    \/ InstallMv
    \/ InstallRm

\* install_file is called with the payload, on a device that may hold an
\* older build at the destination and a leftover in the temporary directory.
InitInstall ==
    /\ InitAnalyzers(ImsiExposureConfig_default)
    /\ NoHarness
    /\ NoReplay
    /\ Constructed
    /\ NoReport
    /\ NoSession
    /\ NoHdlc
    /\ NoBeside_install
    /\ install_pc = "push"
    /\ install_attempt = 1
    /\ install_pushes = 0
    /\ install_payload = "v2"
    /\ tmp_file \in FileContents
    /\ dest_file \in FileContents
    /\ dest_before = dest_file
    /\ install_verified = FALSE

SpecInstall == InitInstall /\ [][NextInstall]_vars

\* ------------------------------------------------------------ WiFi monitor
\* The task run_wifi_client spawns.  A tick is the whole timer branch of the
\* select, a shutdown the whole cancellation branch; what the commands of the
\* client return is drawn at each step.
MAX_RECOVERY_ATTEMPTS == 5

BASE_BACKOFF_SECS == 30

WifiStatus(state, ip, error) == [state |-> state, ip |-> ip, error |-> error]

wifi_status == WifiStatus(wifi_state, wifi_ip, wifi_error)

\* WifiClient::stop: both children are taken and killed.
client_stopped == wpa_child = "None" /\ dhcp_child = "None"

\* The give-up test with the bound itself still allowed.
recovery_exhausted_Above(attempts) == attempts > MAX_RECOVERY_ATTEMPTS

\* The give-up test of a tick that finds the interface missing.
recovery_exhausted(attempts) == attempts >= MAX_RECOVERY_ATTEMPTS

next_backoff(secs) == Min(secs * 2, 240)

\* The task starts: the status becomes Connecting.
WifiSpawn ==
    /\ wifi_pc = "spawned"
    /\ wifi_pc' = "starting"
    /\ wifi_state' = "Connecting"
    /\ status_ssid' = conf_ssid
    /\ wifi_step' = "spawn"
    /\ UNCHANGED <<wifi_ip, wifi_error, recovery_attempts, backoff_secs, wpa_child,
                   dhcp_child, shutdown_cancelled, iface_seen, conf_ssid,
                   iface_present>>
    /\ UNCHANGED <<ratio_vars, diag_vars, harness_vars, replay_vars, daemon_vars,
                   beside_wifi>>

\* client.start(): Connected and the loop, or the client stopped, Failed and
\* the end of the task.
WifiStart ==
    /\ wifi_pc = "starting"
    /\ wifi_step' = "start"
    /\ \E ok \in BOOLEAN, ip \in {"none", "addr"} :
          IF ok
          THEN /\ wifi_state' = "Connected"
               /\ wifi_ip' = ip
               /\ wifi_error' = "none"
               /\ wpa_child' = "Some"
               /\ dhcp_child' = "Some"
               /\ recovery_attempts' = 0
               /\ backoff_secs' = BASE_BACKOFF_SECS
               /\ iface_present' = TRUE
               /\ wifi_pc' = "waiting"
          ELSE /\ wifi_state' = "Failed"
               /\ wifi_error' = "start"
               /\ wpa_child' = "None"
               /\ dhcp_child' = "None"
               /\ wifi_pc' = "done"
               /\ UNCHANGED <<wifi_ip, recovery_attempts, backoff_secs, iface_present>>
    /\ UNCHANGED <<shutdown_cancelled, iface_seen, conf_ssid, status_ssid>>
    /\ UNCHANGED <<ratio_vars, diag_vars, harness_vars, replay_vars, daemon_vars,
                   beside_wifi>>

\* The timer branch with the interface missing: give up, or count one more
\* recovery attempt and show Recovering.
TickMissing ==
    /\ iface_seen' = "missing"
    /\ IF recovery_exhausted(recovery_attempts)
       THEN /\ wpa_child' = "None"
            /\ dhcp_child' = "None"
            /\ wifi_state' = "Failed"
            /\ wifi_error' = "exhausted"
            /\ wifi_pc' = "done"
            /\ UNCHANGED <<wifi_ip, recovery_attempts, backoff_secs>>
       ELSE /\ recovery_attempts' = recovery_attempts + 1
            /\ wifi_state' = "Recovering"
            /\ wifi_ip' = "none"
            /\ wifi_error' = "none"
            /\ wifi_pc' = "recovering"
            /\ UNCHANGED <<wpa_child, dhcp_child, backoff_secs>>

\* The timer branch with the interface present: children that exited are
\* started again, the counter and the backoff are reset, the state is left.
TickPresent(wpa_exited, wpa_ok, dhcp_exited, dhcp_ok, ip) ==
    /\ iface_seen' = "present"
    /\ wifi_pc' = "waiting"
    /\ wpa_child' = IF wpa_child = "Some" /\ wpa_exited /\ ~wpa_ok
                    THEN "None" ELSE wpa_child
    /\ UNCHANGED dhcp_child
    /\ wifi_ip' = IF dhcp_child = "Some" /\ dhcp_exited /\ dhcp_ok
                  THEN ip ELSE wifi_ip
    /\ IF recovery_attempts > 0
       THEN /\ recovery_attempts' = 0
            /\ backoff_secs' = BASE_BACKOFF_SECS
       ELSE UNCHANGED <<recovery_attempts, backoff_secs>>
    /\ UNCHANGED <<wifi_state, wifi_error>>

\* The sleep of the select has elapsed and its branch is taken; the select
\* picks among the branches that are ready, so this can happen with the token
\* already cancelled.
WifiTick ==
    /\ wifi_pc = "waiting"
    /\ wifi_step' = "tick"
    /\ IF iface_present
          THEN \E wpa_exited, wpa_ok, dhcp_exited, dhcp_ok \in BOOLEAN,
                  ip \in {"none", "addr"} :
                  TickPresent(wpa_exited, wpa_ok, dhcp_exited, dhcp_ok, ip)
          ELSE TickMissing
    /\ UNCHANGED <<shutdown_cancelled, conf_ssid, status_ssid, iface_present>>
    /\ UNCHANGED <<ratio_vars, diag_vars, harness_vars, replay_vars, daemon_vars,
                   beside_wifi>>

\* A recovery attempt goes on: the client is stopped and the module reloaded;
\* a failed reload leaves Recovering with its error and doubles the backoff.
WifiReload ==
    /\ wifi_pc = "recovering"
    /\ wifi_step' = "reload"
    /\ wpa_child' = "None"
    /\ dhcp_child' = "None"
    /\ iface_present' \in BOOLEAN
    /\ \E reload_ok \in BOOLEAN :
          IF reload_ok
          THEN /\ wifi_pc' = "restarting"
               /\ UNCHANGED <<wifi_state, wifi_error, backoff_secs>>
          ELSE /\ wifi_pc' = "waiting"
               /\ wifi_state' = "Recovering"
               /\ wifi_error' = "reload"
               /\ backoff_secs' = next_backoff(backoff_secs)
    /\ UNCHANGED <<wifi_ip, recovery_attempts, shutdown_cancelled, iface_seen,
                   conf_ssid, status_ssid>>
    /\ UNCHANGED <<ratio_vars, diag_vars, harness_vars, replay_vars, daemon_vars,
                   beside_wifi>>

\* client.start() after the reload: Connected with the counter and the
\* backoff reset, or the client stopped, Recovering with the error and the
\* backoff doubled.
WifiRestart ==
    /\ wifi_pc = "restarting"
    /\ wifi_step' = "restart"
    /\ wifi_pc' = "waiting"
    /\ \E start_ok \in BOOLEAN, ip \in {"none", "addr"} :
          IF start_ok
          THEN /\ wifi_state' = "Connected"
               /\ wifi_ip' = ip
               /\ wifi_error' = "none"
               /\ wpa_child' = "Some"
               /\ dhcp_child' = "Some"
               /\ recovery_attempts' = 0
               /\ backoff_secs' = BASE_BACKOFF_SECS
               /\ iface_present' = TRUE
          ELSE /\ wifi_state' = "Recovering"
               /\ wifi_error' = "start"
               /\ wpa_child' = "None"
               /\ dhcp_child' = "None"
               /\ backoff_secs' = next_backoff(backoff_secs)
               /\ UNCHANGED <<wifi_ip, recovery_attempts, iface_present>>
    /\ UNCHANGED <<shutdown_cancelled, iface_seen, conf_ssid, status_ssid>>
    /\ UNCHANGED <<ratio_vars, diag_vars, harness_vars, replay_vars, daemon_vars,
                   beside_wifi>>

\* The cancellation branch with the error kept.
WifiShutdown_KeepError ==
    /\ wifi_pc = "waiting"
    /\ shutdown_cancelled
    /\ wifi_step' = "shutdown"
    /\ wpa_child' = "None"
    /\ dhcp_child' = "None"
    /\ wifi_state' = "Disabled"
    /\ wifi_ip' = "none"
    /\ wifi_pc' = "done"
    /\ UNCHANGED <<wifi_error, recovery_attempts, backoff_secs, shutdown_cancelled,
                   iface_seen, conf_ssid, status_ssid, iface_present>>
    /\ UNCHANGED <<ratio_vars, diag_vars, harness_vars, replay_vars, daemon_vars,
                   beside_wifi>>

\* The cancellation branch of the select: the client is stopped, the status
\* becomes Disabled without ip and error, the task ends.
WifiShutdown ==
    /\ wifi_pc = "waiting"
    /\ shutdown_cancelled
    /\ wifi_step' = "shutdown"
    /\ wpa_child' = "None"
    /\ dhcp_child' = "None"
    /\ wifi_state' = "Disabled"
    /\ wifi_ip' = "none"
    /\ wifi_error' = "none"
    /\ wifi_pc' = "done"
    /\ UNCHANGED <<recovery_attempts, backoff_secs, shutdown_cancelled, iface_seen,
                   conf_ssid, status_ssid, iface_present>>
    /\ UNCHANGED <<ratio_vars, diag_vars, harness_vars, replay_vars, daemon_vars,
                   beside_wifi>>

\* The daemon cancels the shutdown token.
WifiCancel ==
    /\ wifi_pc \notin {"none", "done"}
    /\ ~shutdown_cancelled
    /\ shutdown_cancelled' = TRUE
    /\ wifi_step' = "cancel"
    /\ UNCHANGED <<wifi_pc, wifi_state, wifi_ip, wifi_error, recovery_attempts,
                   backoff_secs, wpa_child, dhcp_child, iface_seen, conf_ssid,
                   status_ssid, iface_present>>
    /\ UNCHANGED <<ratio_vars, diag_vars, harness_vars, replay_vars, daemon_vars,
                   beside_wifi>>

\* The WiFi module crashes and the interface disappears.
WifiModuleCrash ==
    /\ wifi_pc = "waiting"
    /\ iface_present
    /\ iface_present' = FALSE
    /\ wifi_step' = "crash"
    /\ UNCHANGED <<wifi_pc, wifi_state, wifi_ip, wifi_error, recovery_attempts,
                   backoff_secs, wpa_child, dhcp_child, shutdown_cancelled,
                   iface_seen, conf_ssid, status_ssid>>
    /\ UNCHANGED <<ratio_vars, diag_vars, harness_vars, replay_vars, daemon_vars,
                   beside_wifi>>

NextWifi ==
    \/ WifiSpawn
    \/ WifiStart
    \/ WifiTick
    \/ WifiReload
    \/ WifiRestart
    \/ WifiShutdown
    \/ WifiCancel
    \/ WifiModuleCrash

\* The monitor without a shutdown request.
NextWifiLive ==
    \/ WifiSpawn
    \/ WifiStart
    \/ WifiTick
    \/ WifiReload
    \/ WifiRestart
    \/ WifiModuleCrash

\* run_wifi_client has spawned the task: WiFi is enabled and the
\* configuration file exists.
InitWifi ==
    /\ InitAnalyzers(ImsiExposureConfig_default)
    /\ NoHarness
    /\ NoReplay
    /\ Constructed
    /\ NoReport
    /\ NoSession
    /\ NoHdlc
    /\ NoBeside_wifi
    /\ wifi_pc = "spawned"
    /\ wifi_state = "Disabled"
    /\ wifi_ip = "none"
    /\ wifi_error = "none"
    /\ recovery_attempts = 0
    /\ backoff_secs = BASE_BACKOFF_SECS
    /\ wpa_child = "None"
    /\ dhcp_child = "None"
    /\ shutdown_cancelled = FALSE
    /\ iface_seen = "none"
    /\ wifi_step = "none"
    /\ conf_ssid \in {NoString, SomeString(<<"a">>)}
    /\ status_ssid = NoString
    /\ iface_present \in BOOLEAN

SpecWifi == InitWifi /\ [][NextWifi]_vars

\* The task keeps running and the timer keeps firing: a pass of the loop that
\* can be taken is taken.
WifiFairness ==
    /\ WF_vars(WifiSpawn)
    /\ WF_vars(WifiStart)
    /\ WF_vars(WifiTick)
    /\ WF_vars(WifiReload)
    /\ WF_vars(WifiRestart)

\* Ticks keep firing and shutdown is never requested.
SpecWifiLive == InitWifi /\ [][NextWifiLive]_vars /\ WifiFairness

\* With shutdown: the cancellation branch is ready at every select after the
\* cancellation, and a select that picks at random among its ready branches
\* does not pass it over for ever.
SpecWifiShutdown ==
    /\ InitWifi
    /\ [][NextWifi]_vars
    /\ WF_vars(WifiSpawn)
    /\ WF_vars(WifiStart)
    /\ WF_vars(WifiReload)
    /\ WF_vars(WifiRestart)
    /\ SF_vars(WifiShutdown)

\* ------------------------------------------------- Meshtastic serial reader
\* The reader task of the Meshtastic worker: every read() appends what it got
\* to accum and the inner loop takes every complete frame out of it.
FRAME_MAGIC == <<148, 195>>

MAX_PAYLOAD == 512

\* The bytes on the line: the two magic bytes and two small values that serve
\* as garbage, as length bytes and as payload.
SerialBytes == {0, 1, 148, 195}

\* Vec::drain(..n)
drain(v, n) == SubSeq(v, n + 1, Len(v))

\* windows(2).position(|w| w == FRAME_MAGIC): the index, from 0, of the first
\* place where the magic stands, or -1.
magic_position(v) ==
    LET hits == {i \in 1..(Len(v) - 1) : <<v[i], v[i + 1]>> = FRAME_MAGIC}
    IN  IF hits = {} THEN -1
        ELSE (CHOOSE i \in hits : \A j \in hits : i <= j) - 1

\* u16::from_be_bytes
u16_from_be_bytes(hi, lo) == hi * 256 + lo

\* frame_packet: magic, big-endian length, payload.
frame_packet(payload) ==
    FRAME_MAGIC \o <<Len(payload) \div 256, Len(payload) % 256>> \o payload

\* The inner loop of the reader, until it breaks or fewer than 4 bytes are
\* left.
RECURSIVE parse_frames(_, _)
parse_frames(buf, got) ==
    IF Len(buf) < 4 THEN [accum |-> buf, payloads |-> got]
    ELSE IF buf[1] # FRAME_MAGIC[1] \/ buf[2] # FRAME_MAGIC[2]
    THEN LET pos == magic_position(buf)
         IN  IF pos >= 0
             THEN parse_frames(drain(buf, pos), got)
             ELSE parse_frames(<<>>, got)
    ELSE LET payload_len == u16_from_be_bytes(buf[3], buf[4])
         IN  IF payload_len > MAX_PAYLOAD
             THEN parse_frames(drain(buf, 2), got)
             ELSE IF Len(buf) < 4 + payload_len
             THEN [accum |-> buf, payloads |-> got]
             ELSE parse_frames(drain(buf, 4 + payload_len),
                               Append(got, SubSeq(buf, 5, 4 + payload_len)))

\* One read() that returns n bytes, and the frames it completes.
ReadChunk ==
    /\ delivered < Len(serial_stream)
    /\ \E n \in 1..(Len(serial_stream) - delivered) :
          LET r == parse_frames(
                      accum \o SubSeq(serial_stream, delivered + 1, delivered + n),
                      payloads)
          IN  /\ delivered' = delivered + n
              /\ accum' = r.accum
              /\ payloads' = r.payloads
    /\ UNCHANGED serial_stream
    /\ UNCHANGED <<ratio_vars, diag_vars, harness_vars, replay_vars, daemon_vars,
                   beside_mesh>>

NextMesh == ReadChunk

\* The port is open and the radio sends any stream of up to MaxStream bytes.
InitMesh ==
    /\ InitAnalyzers(ImsiExposureConfig_default)
    /\ NoHarness
    /\ NoReplay
    /\ Constructed
    /\ NoReport
    /\ NoSession
    /\ NoHdlc
    /\ NoBeside_mesh
    /\ serial_stream \in SeqsUpTo(SerialBytes, MaxStream)
    /\ delivered = 0
    /\ accum = <<>>
    /\ payloads = <<>>

SpecMesh == InitMesh /\ [][NextMesh]_vars

\* ------------------------------------------- countability and diagnostics

\* The LTE elements of the modelled universe.
LteElements ==
    NasElements \cup DlDcchElements \cup PcchElements \cup OtherLteElements

\* C11: is_countable_message returns true exactly for LTE elements; the GSM,
\* UMTS and FiveG stub variants are never countable and are never classified
\* as exposing.
C11_CountableIffLte ==
    diag_ie # NoElement =>
        /\ is_countable_message(diag_ie) <=> diag_ie \in LteElements
        /\ diag_ie \in {GSM, UMTS, FiveG} =>
              /\ ~is_countable_message(diag_ie)
              /\ ~is_some(classify(diag_ie))
              /\ diag_event = NoEvent

\* The FiveG stub went through the classifier: not countable, not tagged.
C11_Witness ==
    /\ diag_ie = FiveG
    /\ ~is_countable_message(diag_ie)
    /\ diag_event = NoEvent

\* C12: the diagnostic analyzer is stateless: for every element and every
\* call history it emits an event if and only if classify(element) is Some,
\* and the emitted severity is always Informational.
C12_DiagnosticStateless ==
    diag_ie # NoElement =>
        /\ diag_event # NoEvent <=> is_some(classify(diag_ie))
        /\ diag_event # NoEvent =>
              /\ diag_event.event_type = "Informational"
              /\ diag_event.message[2] = classify(diag_ie).description
              /\ diag_event.message[3] = classify(diag_ie).category

\* A GERAN redirect was tagged with an Informational event.
C12_Witness ==
    /\ diag_ie = LteDlDcch("RrcConnectionRelease", "RrcConnectionRelease_r8",
                           "Geran")
    /\ diag_event.event_type = "Informational"
    /\ diag_event.message[3] = "ConnectionRedirect"

\* C13: with min_sample_size = 1 and high_threshold <= 1, when the first
\* countable message of a session is IMSI-exposing (a paging record with IMSI,
\* say) the ratio analyzer emits High on that same message.
C13_FirstExposingHigh ==
    (/\ config.min_sample_size = 1
     /\ config.high_threshold[1] <= config.high_threshold[2]
     /\ is_countable_message(ratio_ie)
     /\ observations = <<TRUE>>) =>
        /\ ratio_event.event_type = "High"
        /\ ratio_event.message[2] = 1
        /\ ratio_event.message[3] = 1

\* The first countable message was a paging record with IMSI, under a
\* configuration with min_sample_size 1 and a high threshold below 1.
C13_Witness ==
    /\ config.min_sample_size = 1
    /\ config.high_threshold = <<1, 2>>
    /\ ratio_ie = LtePcch("Paging", "Some", <<"S_TMSI", "Imsi">>)
    /\ observations = <<TRUE>>
    /\ ratio_event.event_type = "High"

\* C14: under the default configuration (window 200, min_sample_size 50,
\* medium 0.10, high 0.25), in every sequence of 200 countable messages of
\* which exactly 2 are exposing, at any positions, the ratio analyzer emits
\* no event on any message.
C14_NormalTrafficSilent ==
    /\ config = ImsiExposureConfig_default
    /\ ratio_event = NoEvent

\* The second exposing message arrived right at the sample floor (2 of 50,
\* the largest ratio the scenario reaches) and raised nothing.
C14_Witness ==
    /\ Len(observations) = config.min_sample_size
    /\ window.positive_count = NormalExposing
    /\ observations[Len(observations)]
    /\ is_some(last_classification)
    /\ ratio_event = NoEvent

\* ------------------------------------------------------------ the harness

\* No log item of the captured containers is classified IMSI-exposing.
NoExposing(containers) ==
    \A c \in 1..Len(containers) : \A i \in 1..Len(containers[c]) :
        ~is_some(classify(containers[c][i]))

\* Some log item of the container is classified IMSI-exposing.
HasExposing(container) ==
    \E i \in 1..Len(container) : is_some(classify(container[i]))

\* C15: for a capture in which no message is classified IMSI-exposing, the
\* ratio analyzer never emits an event and the diagnostic analyzer emits
\* nothing, so no row carries a severity above Informational.
C15_CleanCaptureSilent ==
    NoExposing(capture) =>
        /\ \A r \in 1..Len(rows) : \A i \in 1..Len(rows[r].events) :
              rows[r].events[i] = NoEvent
        /\ ratio_event = NoEvent
        /\ diag_event = NoEvent

\* Two containers of plain LTE traffic went through both analyzers, the
\* ratio analyzer past its sample floor.
C15_Witness ==
    /\ capture = <<<<PlainItem>>, <<PlainItem>>>>
    /\ harness_analyzers = <<"diagnostic", "ratio">>
    /\ count(window) >= config.min_sample_size
    /\ ratio_ie = PlainItem
    /\ diag_ie = PlainItem
    /\ Len(rows) = 2

C20_SlotPerAnalyzer ==
    \A r \in 1..Len(rows) :
        /\ Len(rows[r].events) = Len(harness_analyzers)
        /\ \A i \in 1..Len(rows[r].events) :
              /\ harness_analyzers[i] = "diagnostic" =>
                    rows[r].events[i] =
                       IF HasExposing(capture[r])
                       THEN diagnostic_analyze(ExposingItem)
                       ELSE NoEvent
              /\ harness_analyzers[i] = "ratio" =>
                    rows[r].events[i].event_type \in {"None", "Medium", "High"}

\* The ratio analyzer, configured first, produced nothing for a row and the
\* diagnostic analyzer, configured second, produced an event: the row keeps
\* both slots.
C20_Witness ==
    /\ harness_analyzers = <<"ratio", "diagnostic">>
    /\ Len(rows) >= 1
    /\ rows[1].events[1] = NoEvent
    /\ rows[1].events[2].event_type = "Informational"

\* ------------------------------------------------------------- the replay

C17_StopsAtKnownSize ==
    run >= 1 =>
        /\ reader_pos <= size_at_open
        /\ Len(capture) = reader_pos
        /\ reader_pos = size_at_open => ~ENABLED ReplayMessage
        /\ stream_done => reader_pos = size_at_open

\* The stream ended at the snapshot although the file has grown since.
C17_Witness ==
    /\ run >= 1
    /\ stream_done
    /\ size_at_open >= 1
    /\ reader_pos = size_at_open
    /\ Len(file) > size_at_open

\* C18, as claimed: the speed parameter paces the emitted messages to
\* wall-clock time according to the modem timestamps (the container at offset
\* d from the first is not out before d / speed has passed since the device
\* was opened), and speed 0 emits as fast as possible.
C18_PacedBySpeed ==
    /\ (run >= 1 /\ speed > 0 /\ reader_pos >= 1) =>
          (now - opened_at) * speed >= reader_pos - 1
    /\ (run >= 1 /\ speed = 0 /\ ~stream_done /\ reader_pos < size_at_open) =>
          ENABLED ReplayMessage

\* C18, amended: speed is stored and not consulted: whatever its value and
\* whatever the clock reads, the next container is out as soon as the reader
\* has one.
C18_SpeedNotConsulted ==
    (run >= 1 /\ ~stream_done /\ reader_pos < size_at_open) =>
        ENABLED ReplayMessage

\* At speed 2 three containers, a time unit apart on the modem clock, are out
\* before the wall clock has moved.
C18_Witness ==
    /\ run >= 1
    /\ speed = 2
    /\ now = opened_at
    /\ reader_pos = 3

\* ------------------------------------------------------------- severities

\* The report holds an event of type t.
Reported(t) == \E k \in 1..Len(report) : report[k] = t

\* C21: event severities are totally ordered Informational < Low < Medium <
\* High, so folding a report with max yields High whenever any High event
\* exists and a value <= Informational only when no Low, Medium or High event
\* exists.
C21_SeverityFold ==
    /\ \A i, j \in 1..4 :
          EventType_gt(EventTypes[j], EventTypes[i]) <=> j > i
    /\ Reported("High") => max_severity = "High"
    /\ (max_severity # "None" /\ EventType_le(max_severity, "Informational")) =>
          ~(Reported("Low") \/ Reported("Medium") \/ Reported("High"))
    /\ max_severity = "None" <=> \A k \in 1..Len(report) : report[k] = "None"
    /\ highest_severity_color(event_counts(report)) = "RED" <=>
          max_severity = "High"

\* High came first and a Medium event after it did not lower the fold.
C21_Witness ==
    /\ report = <<"High", "None", "Medium">>
    /\ max_severity = "High"

\* ------------------------------------------------------------ the channel

\* The messages 1..n in order.
FirstN(n) == [i \in 1..n |-> i]

\* C23: when the bounded reader-to-consumers channel (capacity 64) is full,
\* the transport reader blocks; no message is ever dropped, so every message
\* read from the device is delivered to both the QMDL writer and the decoder,
\* in order.
C23_BackpressureNoDrop ==
    /\ Len(tee) <= TeeCapacity
    /\ Len(tee) = TeeCapacity => ~ENABLED TransportRead
    /\ writer_taken = FirstN(Len(writer_taken))
    /\ decoder_taken = FirstN(Len(decoder_taken))
    /\ Pending(tee, writer_taken) =
          [i \in 1..(device_read - Len(writer_taken)) |-> Len(writer_taken) + i]
    /\ Pending(tee, decoder_taken) =
          [i \in 1..(device_read - Len(decoder_taken)) |-> Len(decoder_taken) + i]

\* The channel is full for the second time: the writer lags, the reader had
\* to wait for it and has read more messages than the channel holds.
C23_Witness ==
    /\ Len(tee) = TeeCapacity
    /\ device_read > TeeCapacity
    /\ Len(writer_taken) = device_read - TeeCapacity
    /\ Len(decoder_taken) > Len(writer_taken)

\* ------------------------------------------------------------ the session
\* C24, as stated: framing and decode errors never move the session out of
\* Recording, and every transport or storage error (DeviceGone, IoError,
\* InsufficientStorage during recording) moves it to Stopped.
ControlPlaneErrors == {"DeviceGone", "IoError", "IoErrorRetryFailed", "InsufficientStorage"}

C24_ErrorPlanes ==
    /\ last_step \in DataPlaneErrors => session = "Recording"
    /\ last_step \in ControlPlaneErrors => session = "Stopped"

\* C24, amended: framing and decode errors, transient read errors and a write
\* error whose single retry succeeds leave the session Recording; a lost
\* device and a write error whose retry fails too stop it with DiagError; free
\* space below the continue threshold stops it with DiskFull.
C24_ErrorPlanesRetried ==
    /\ last_step \in DataPlaneErrors \cup {"TransientRead", "IoError"} =>
          /\ session = "Recording"
          /\ stop_reason = "None"
    /\ last_step \in {"DeviceGone", "IoErrorRetryFailed"} =>
          /\ session = "Stopped"
          /\ stop_reason = "DiagError"
    /\ last_step = "InsufficientStorage" =>
          /\ session = "Stopped"
          /\ stop_reason = "DiskFull"

\* A write failed once, its retry succeeded, and the session records on.
C24_Witness ==
    /\ last_step = "IoError"
    /\ session = "Recording"
    /\ current_entry = 1

\* C25: a start with less free space than min_space_to_start_recording_mb is
\* answered with 507 Insufficient Storage and changes nothing of the session:
\* no recording becomes active; a start with enough space is never answered
\* with 507.
C25_LowDiskStart ==
    [][last_step' = "start" =>
          IF free_mb < min_space_to_start_recording_mb
          THEN /\ last_response' = InsufficientStorageStatus
               /\ UNCHANGED <<session, stop_reason, current_entry, entries, pipelines>>
          ELSE last_response' # InsufficientStorageStatus]_vars

\* The disk has space, but less than the threshold the configuration sets:
\* the start was answered with 507 and nothing records.
C25_Witness ==
    /\ last_step = "start"
    /\ last_response = InsufficientStorageStatus
    /\ free_mb > 0
    /\ min_space_to_start_recording_mb = 999999
    /\ ~Active
    /\ current_entry = 0

\* C26: current_entry is present exactly while a recording is active; it is
\* the new entry after a successful start and absent after a stop.
C26_CurrentEntryWhileActive ==
    /\ (current_entry # 0) = Active
    /\ (last_step = "start" /\ last_response = 200) =>
          /\ current_entry # 0
          /\ current_entry = entries
    /\ last_step = "stop" => current_entry = 0

\* The second recording of the run was stopped by request.
C26_Witness ==
    /\ last_step = "stop"
    /\ stop_reason = "UserStop"
    /\ entries = 2
    /\ current_entry = 0

\* C27: at most one pipeline runs, and one runs exactly while a recording is
\* active; whatever happened, the daemon answers the next start and the next
\* stop.
C27_OnePipeline ==
    /\ pipelines <= 1
    /\ (pipelines = 1) = Active
    /\ ENABLED StartRequest
    /\ ENABLED StopRequest

\* A start arrived while a recording was active and the disk had space: it was
\* refused, and the one recording goes on.
C27_Witness ==
    /\ last_step = "start"
    /\ last_response = 500
    /\ start_has_space
    /\ Active
    /\ pipelines = 1

\* -------------------------------------------------------------- the framer
\* C28: decoding the encoding of a message yields exactly one result, Ok of
\* that message.
C28_RoundTrip ==
    hdlc_phase = "decoded" => hdlc_decoded = <<HdlcOk(hdlc_msg)>>

\* A message of escapes and terminators whose CRC needs escaping too came back
\* whole.
C28_Witness ==
    /\ hdlc_phase = "decoded"
    /\ hdlc_msg = <<HDLC_ESCAPE, HDLC_TERMINATOR, HDLC_ESCAPE, HDLC_TERMINATOR, HDLC_TERMINATOR>>
    /\ hdlc_decoded = <<HdlcOk(hdlc_msg)>>
    /\ NeedsEscape(crc_le_bytes(hdlc_msg)[1])

\* C29, as stated: the encoding of a message of length len is at most
\* 2*len + 3 bytes long.
C29_ExpansionBound ==
    hdlc_phase # "message" => Len(hdlc_encoded) <= 2 * Len(hdlc_msg) + 3

\* The bytes of a sequence that the framer escapes.
Escaped(bytes) == Cardinality({i \in 1..Len(bytes) : NeedsEscape(bytes[i])})

\* C29, amended: the encoding is len + 3 bytes plus one byte for every 0x7d or
\* 0x7e among the message and its two CRC bytes, hence at most 2*len + 5
\* bytes.
C29_ExpansionWithCrc ==
    hdlc_phase # "message" =>
        /\ Len(hdlc_encoded) = Len(hdlc_msg) + 3 + Escaped(hdlc_msg \o crc_le_bytes(hdlc_msg))
        /\ Len(hdlc_encoded) <= 2 * Len(hdlc_msg) + 5

\* Five bytes, all escaped, and a CRC byte escaped as well: 14 bytes.
C29_Witness ==
    /\ hdlc_phase = "encoded"
    /\ Len(hdlc_msg) = 5
    /\ Len(hdlc_encoded) = 2 * Len(hdlc_msg) + 4

\* ------------------------------------------------------------ construction
\* C30: a window of capacity 0 is never constructed: asking for one panics
\* with "window_size must be positive", directly and through the ratio
\* analyzer's constructor alike; every window that exists has a positive
\* capacity, the one asked for, and keeps it.
C30_ZeroWindowPanics ==
    /\ constructed \in {"window", "yes"} =>
          /\ window.window_size > 0
          /\ window.window_size = config.window_size
    /\ constructed \in {"window_panicked", "analyzer_panicked"} =>
          /\ config.window_size = 0
          /\ panic_message = "window_size must be positive"
          /\ window = NoWindow
    /\ (constructed # "no" /\ config.window_size = 0) =>
          constructed \in {"window_panicked", "analyzer_panicked"}

\* The analyzer was asked for with window_size 0, and its constructor
\* panicked.
C30_Witness ==
    /\ constructed = "analyzer_panicked"
    /\ config.window_size = 0
    /\ panic_message = "window_size must be positive"

\* -------------------------------------------------- exposure and the floor
\* Every element of the universe that classify tags is countable.
ExposingAreCountable ==
    \A ie \in InformationElements : is_some(classify(ie)) => is_countable_message(ie)

\* C38: every element classify marks as exposing is countable, so the call
\* that sees it pushes a positive observation that the window counts: the
\* positives never outnumber the observations held and the ratio never
\* exceeds 1.
C38_ExposingIsCounted ==
    /\ ExposingAreCountable
    /\ is_some(classify(ratio_ie)) =>
          /\ is_countable_message(ratio_ie)
          /\ observations # <<>>
          /\ observations[Len(observations)]
          /\ window.window[count(window)]
          /\ window.positive_count >= 1
    /\ window.positive_count <= count(window)
    /\ ratio(window).some => ratio(window).num <= ratio(window).den

\* An exposing RRC element arrived at a full window of exposing
\* observations: the ratio is exactly 1.
C38_Witness ==
    /\ is_some(classify(ratio_ie))
    /\ ratio_ie.channel # "NAS"
    /\ Len(observations) > window.window_size
    /\ ratio(window).some
    /\ ratio(window).num = ratio(window).den
    /\ ratio(window).den = window.window_size

\* C39: with min_sample_size above window_size the ratio analyzer emits no
\* event, whatever it is fed: count() stops at window_size, below the floor.
C39_FloorAboveCapacity ==
    config.min_sample_size > config.window_size =>
        /\ ratio_event = NoEvent
        /\ count(window) < config.min_sample_size

\* The floor is above the capacity, the window is full of exposing
\* observations, one was evicted, the latest element is exposing and the
\* ratio meets the high threshold: still nothing is emitted.
C39_Witness ==
    /\ config.min_sample_size > config.window_size
    /\ Len(observations) > window.window_size
    /\ count(window) = window.window_size
    /\ window.positive_count = count(window)
    /\ is_some(classify(ratio_ie))
    /\ WindowRatioGe(config.high_threshold)
    /\ ratio_event = NoEvent

\* ------------------------------------------------- the wpa_supplicant file
\* C31: update_wpa_conf writes the file (the formatted configuration, mode
\* 0o600) when SSID and password are both non-blank, removes it when the SSID
\* is absent or blank, and leaves it as it was when an SSID is set without a
\* password.
C31_WriteRemoveOrKeep ==
    [][wpa_step' = "update" =>
          IF ~is_blank(wifi_ssid') /\ ~is_blank(wifi_password')
          THEN /\ wpa_file'.exists
               /\ wpa_file'.content =
                     format_wpa_conf(wifi_ssid'.value, wifi_password'.value)
               /\ wpa_file'.mode = WPA_CONF_MODE
          ELSE IF is_blank(wifi_ssid') THEN ~wpa_file'.exists
          ELSE wpa_file' = wpa_file]_vars

\* An SSID was set without a password over a file written earlier for another
\* network: the file still names that network.
C31_Witness ==
    /\ wpa_step = "update"
    /\ wifi_ssid = SomeString(<<"a">>)
    /\ is_blank(wifi_password)
    /\ wpa_file.exists
    /\ read_ssid_from_wpa_conf(wpa_file) = SomeString(<<"b", "\"">>)

\* C32: read_ssid_from_wpa_conf of the file format_wpa_conf produced returns
\* the SSID that was formatted, whatever the password.
C32_SsidRoundTrip ==
    wpa_step = "read" => read_ssid = wifi_ssid

\* An SSID of a backslash, a quote and a backslash, with a password that
\* holds a line of its own starting with ssid=", was read back.
C32_Witness ==
    /\ wpa_step = "read"
    /\ wifi_ssid = SomeString(<<"\\", "\"", "\\">>)
    /\ Len(wifi_password.value) > 2
    /\ read_ssid = wifi_ssid

\* --------------------------------------------------------------- the scan
\* What a BSS block carries: the SSID of its last SSID line that has one, and
\* the reading of its last signal line (DEFAULT_SIGNAL without one).
BlockSsid(block) ==
    LET carrying == {i \in 1..Len(block) : scan_ssid(block[i]).some}
    IN  IF carrying = {} THEN NoString
        ELSE scan_ssid(block[CHOOSE i \in carrying : \A j \in carrying : j <= i])

BlockSignal(block) ==
    LET reading == {i \in 1..Len(block) : block[i].key = "signal: "}
    IN  IF reading = {} THEN DEFAULT_SIGNAL
        ELSE scan_signal(block[CHOOSE i \in reading : \A j \in reading : j <= i])

\* The blocks of the scan that carry the SSID.
Carrying(ssid) ==
    {i \in 1..Len(scan_blocks) : BlockSsid(scan_blocks[i]) = SomeString(ssid)}

\* C33: parse_iw_scan returns at most one network per SSID, none with an
\* empty SSID, one for every SSID a block carries, and each with the
\* strongest signal among the blocks carrying its SSID.
C33_StrongestPerSsid ==
    scan_step = "parsed" =>
        /\ \A i, j \in 1..Len(networks) :
              networks[i].ssid = networks[j].ssid => i = j
        /\ \A i \in 1..Len(networks) :
              /\ networks[i].ssid # <<>>
              /\ Carrying(networks[i].ssid) # {}
              /\ \E b \in Carrying(networks[i].ssid) :
                    networks[i].signal_dbm = BlockSignal(scan_blocks[b])
              /\ \A b \in Carrying(networks[i].ssid) :
                    networks[i].signal_dbm >= BlockSignal(scan_blocks[b])
        /\ \A b \in 1..Len(scan_blocks) :
              BlockSsid(scan_blocks[b]).some =>
                  \E i \in 1..Len(networks) :
                      SomeString(networks[i].ssid) = BlockSsid(scan_blocks[b])

\* Three blocks of network A, the strongest last, parse to one network with
\* that block's signal.
C33_Witness ==
    /\ scan_step = "parsed"
    /\ Len(scan_blocks) = 3
    /\ Carrying(<<"A">>) = {1, 2, 3}
    /\ BlockSignal(scan_blocks[1]) < BlockSignal(scan_blocks[2])
    /\ BlockSignal(scan_blocks[2]) < BlockSignal(scan_blocks[3])
    /\ Len(networks) = 1
    /\ networks[1].signal_dbm = BlockSignal(scan_blocks[3])

\* ------------------------------------------------------------ the installer
\* C34: install_file pushes at most MAX_RETRIES times; the destination
\* changes only after a pushed copy had the MD5 of the payload; it returns Ok
\* only with the payload installed, and when no attempt verified it returns an
\* error with the destination as it was.
C34_VerifiedBeforeOverwrite ==
    /\ install_pushes <= MAX_RETRIES
    /\ install_attempt <= MAX_RETRIES
    /\ dest_file # dest_before => install_verified
    /\ install_pc = "mv" => install_verified /\ tmp_file = install_payload
    /\ install_pc = "ok" => install_verified /\ dest_file = install_payload
    /\ (install_pc \in {"ok", "err"} /\ ~install_verified) =>
          /\ install_pc = "err"
          /\ dest_file = dest_before

\* Three pushes, none of them verified: an error, and the older build is
\* still at the destination.
C34_Witness ==
    /\ install_pc = "err"
    /\ install_pushes = 3
    /\ ~install_verified
    /\ tmp_file = "torn"
    /\ dest_before = "v1"
    /\ dest_file = "v1"

\* ---------------------------------------------------------- the WiFi monitor
\* C35: recovery_attempts never exceeds MAX_RECOVERY_ATTEMPTS and a recovery
\* attempt starts only below it; a tick that finds the interface missing with
\* the attempts used up stops the client, sets Failed with an error and ends
\* the task; once the task has ended it changes the status no more.
C35_RecoveryBounded ==
    [][/\ recovery_attempts' <= MAX_RECOVERY_ATTEMPTS
       /\ wifi_pc' = "recovering" /\ wifi_pc # "recovering" =>
             /\ recovery_attempts < MAX_RECOVERY_ATTEMPTS
             /\ recovery_attempts' = recovery_attempts + 1
       /\ ( /\ wifi_pc = "waiting"
            /\ wifi_step' = "tick"
            /\ ~iface_present
            /\ recovery_attempts = MAX_RECOVERY_ATTEMPTS ) =>
             /\ client_stopped'
             /\ wifi_state' = "Failed"
             /\ wifi_error' = "exhausted"
             /\ wifi_pc' = "done"
       /\ wifi_pc = "done" =>
             /\ wifi_pc' = "done"
             /\ wifi_status' = wifi_status
             /\ status_ssid' = status_ssid]_vars

\* The sixth tick in a row without the interface: the task has given up.
C35_Witness ==
    /\ wifi_pc = "done"
    /\ wifi_step = "tick"
    /\ iface_seen = "missing"
    /\ recovery_attempts = MAX_RECOVERY_ATTEMPTS
    /\ wifi_state = "Failed"
    /\ wifi_error = "exhausted"
    /\ client_stopped

C37_ShutdownDisables ==
    (shutdown_cancelled /\ wifi_pc = "waiting") ~>
        (wifi_pc = "done" /\ wifi_state = "Disabled")

\* C37: a cancellation that finds the loop waiting ends the task with the
\* client stopped.  The cancellation branch stops the client, sets Disabled
\* with ip and error cleared and ends the task; the only other end is a tick
\* taken first that gives up in Failed; after the end the status is written
\* no more.
C37_ShutdownEndsTask ==
    /\ (shutdown_cancelled /\ wifi_pc = "waiting") ~> (wifi_pc = "done")
    /\ [](wifi_pc = "done" =>
             /\ client_stopped
             /\ wifi_state \in {"Disabled", "Failed"})
    /\ [][/\ wifi_step' = "shutdown" =>
                /\ client_stopped'
                /\ wifi_status' = WifiStatus("Disabled", "none", "none")
                /\ wifi_pc' = "done"
          /\ ( /\ shutdown_cancelled
               /\ wifi_pc = "waiting"
               /\ wifi_pc' = "done"
               /\ wifi_state' # "Disabled" ) =>
                /\ wifi_step' = "tick"
                /\ wifi_status'.state = "Failed"
                /\ wifi_status'.error = "exhausted"
          /\ wifi_pc = "done" =>
                /\ wifi_pc' = "done"
                /\ wifi_status' = wifi_status]_vars

\* Shutdown during the backoff of a recovery: the error and the address that
\* the status showed are gone.
C37_Witness ==
    /\ wifi_step = "shutdown"
    /\ shutdown_cancelled
    /\ wifi_pc = "done"
    /\ recovery_attempts > 0
    /\ client_stopped
    /\ wifi_status = WifiStatus("Disabled", "none", "none")

\* ------------------------------------------------------ the Meshtastic reader
\* The payloads one read() of the whole stream extracts.
read_at_once(stream) == parse_frames(stream, <<>>).payloads

\* C40: the payloads extracted from a stream do not depend on how read()
\* splits it: once the whole stream is read they are those of a single read.
C40_SplitIndependent ==
    delivered = Len(serial_stream) => payloads = read_at_once(serial_stream)

====
